---- MODULE Spec2Model ----
(***************************************************************************)
(* A model of the real-time WebSocket connection manager                   *)
(* (backend/app/services/websocket_manager.py) and of the analyst feedback *)
(* buffer with its retraining orchestrator (ai-engine/src/feedback_loop.py)*)
(*                                                                         *)
(* The manager runs on one asyncio event loop: a coroutine runs without    *)
(* interruption between two awaits, and any other task may run while it is *)
(* suspended in an await.  Every action below is one such uninterrupted    *)
(* stretch: it resumes a coroutine after the await it was suspended in,    *)
(* runs it up to the next await and performs that await's transport call.  *)
(***************************************************************************)
EXTENDS Integers, Sequences, FiniteSets, TLC

\* ------------------------------------------------------------------ bounds
MaxSock == 2        \* transports ever offered to connect
MaxCalls == 1       \* broadcast calls ever started
MaxQueued == 2      \* queue_message calls ever made (small-queue specifications)
MaxItems == 4       \* feedback items ever added
MaxThreshold == 2   \* the largest retraining threshold configured
MaxBeats == 3       \* send attempts of one heartbeat loop
MaxHbSock == 1      \* connections made beside their heartbeat loops

\* ------------------------------------------------------------- value sets
Orgs == {"orgA", "orgB"}
Users == {"u1", "u2"}
ConnIds == {"c1", "c2", "c3", "c4"}
QMsgs == {"m1", "m2"}
Slots == {1, 2}     \* coroutines that may be in progress at the same time
NoOrg == "-"
NoUser == "-"
NoConn == "-"

VARIABLES
    active_connections,   \* {organization_id: {user_id: {connection_id: websocket}}}
    connection_metadata,  \* {connection_id: {organization_id, user_id}}
    message_queue,        \* {"org:user": [message, ...]}
    transport,            \* the websockets handed to connect: peer state and what each received
    used_ids,             \* connection ids handed to connect so far
    heartbeat_tasks,      \* connection_id -> the _heartbeat loops started for it
    tasks,                \* the coroutines in progress, one per slot
    calls,                \* broadcast calls started so far
    queued,               \* queue_message calls made so far
    last,                 \* the synchronous call that ran last, with what it saw before it ran
    retraining_threshold, \* FeedbackBuffer.retraining_threshold
    buffer,               \* FeedbackBuffer.buffer
    retraining_jobs,      \* ModelRetrainingOrchestrator.retraining_jobs
    clock,                \* datetime.utcnow(), as the number of stamps taken
    report,               \* the dict the last call of a reader of the buffer returned
    trig                  \* a trigger_retraining call in progress on another thread

wsvars == <<active_connections, connection_metadata, message_queue, transport,
            used_ids, heartbeat_tasks, tasks, calls, queued>>
fbvars == <<retraining_threshold, buffer, retraining_jobs, clock, report, trig>>
vars == <<wsvars, last, fbvars>>

\* ------------------------------------------------------------ Python dict
\* A dict is its entry table in insertion order.  del leaves a dead entry
\* (key and value cleared) in place; a new key is appended.  CPython rebuilds
\* the table only on the insert after the fifth, which no dict here reaches.
DeadEntry == [k |-> "-", v |-> 0, live |-> FALSE]

DictHas(d, key) == \E i \in 1..Len(d) : d[i].live /\ d[i].k = key

DictIdx(d, key) == CHOOSE i \in 1..Len(d) : d[i].live /\ d[i].k = key

DictGet(d, key) == d[DictIdx(d, key)].v

DictSet(d, key, val) ==
    IF DictHas(d, key) THEN [d EXCEPT ![DictIdx(d, key)].v = val]
    ELSE Append(d, [k |-> key, v |-> val, live |-> TRUE])

DictDel(d, key) == [d EXCEPT ![DictIdx(d, key)] = DeadEntry]

\* len(d)
DictLen(d) == Cardinality({i \in 1..Len(d) : d[i].live})

\* list(d.items()): the live entries, in order
RECURSIVE DictItems(_)
DictItems(d) ==
    IF d = <<>> THEN <<>>
    ELSE IF d[1].live THEN <<d[1]>> \o DictItems(Tail(d))
    ELSE DictItems(Tail(d))

\* the connections of every user of an organization
RECURSIVE AllItems(_)
AllItems(ud) ==
    IF ud = <<>> THEN <<>>
    ELSE (IF ud[1].live THEN DictItems(ud[1].v) ELSE <<>>) \o AllItems(Tail(ud))

\* the transports of a list of (connection_id, websocket) items
WsOf(items) == [i \in 1..Len(items) |-> items[i].v]

\* iter(d.items()): the size at creation, the table position, the items left
DictIter(d) == [used |-> DictLen(d), pos |-> 0, len |-> DictLen(d)]
NoIter == [used |-> 0, pos |-> 0, len |-> 0]

LiveAfter(d, p) == {i \in (p + 1)..Len(d) : d[i].live}

\* next() on a dict iterator: RuntimeError when the size differs from the size
\* at creation, StopIteration at the end of the table, RuntimeError when a live
\* entry is found after all the items counted at creation were yielded.
DictNext(d, it) ==
    IF it.used # DictLen(d) THEN [st |-> "error", it |-> it, at |-> 0]
    ELSE IF LiveAfter(d, it.pos) = {} THEN [st |-> "stop", it |-> it, at |-> 0]
    ELSE IF it.len = 0 THEN [st |-> "error", it |-> it, at |-> 0]
    ELSE LET i == CHOOSE j \in LiveAfter(d, it.pos) :
                      \A j2 \in LiveAfter(d, it.pos) : j <= j2
         IN [st |-> "item",
             it |-> [used |-> it.used, pos |-> i, len |-> it.len - 1],
             at |-> i]

\* ---------------------------------------------------------------- registry
IdSeq == <<"c1", "c2", "c3", "c4", "c5">>

\* queue_key = f"{org_id}:{user_id}"
QueueKey(org, user) == org \o ":" \o user

\* connect, lines 99-116: the pools are created on first use, the connection
\* is stored under (org, user) and its metadata under its id
Register(ac, md, org, user, cid, ws) ==
    LET ac1 == [o \in DOMAIN ac \cup {org} |-> IF o \in DOMAIN ac THEN ac[o] ELSE <<>>]
        ac2 == IF DictHas(ac1[org], user) THEN ac1
               ELSE [ac1 EXCEPT ![org] = DictSet(@, user, <<>>)]
        ac3 == [ac2 EXCEPT ![org] =
                   DictSet(@, user, DictSet(DictGet(@, user), cid, ws))]
    IN [ac |-> ac3,
        md |-> [c \in DOMAIN md \cup {cid} |->
                   IF c = cid THEN [organization_id |-> org, user_id |-> user]
                   ELSE md[c]]]

\* a disconnect that forgets the metadata but leaves the connection in its pool
DisconnectKeepsEntry(ac, md, cid) ==
    [ac |-> ac, md |-> [c \in DOMAIN md \ {cid} |-> md[c]]]

\* disconnect: a no-op for an id without metadata; otherwise the entry under
\* the metadata's (org, user) is deleted if it is there, then the metadata
DisconnectOp(ac, md, cid) ==
    IF cid \notin DOMAIN md THEN [ac |-> ac, md |-> md]
    ELSE LET org == md[cid].organization_id
             user == md[cid].user_id
             there == /\ org \in DOMAIN ac
                      /\ DictHas(ac[org], user)
                      /\ DictHas(DictGet(ac[org], user), cid)
         IN [ac |-> IF there
                    THEN [ac EXCEPT ![org] =
                             DictSet(@, user, DictDel(DictGet(@, user), cid))]
                    ELSE ac,
             md |-> [c \in DOMAIN md \ {cid} |-> md[c]]]

\* a clean-up that disconnects nothing
DisconnectNone(ac, md, cids) == [ac |-> ac, md |-> md]

\* for conn_id in disconnected_connections: await self.disconnect(conn_id)
RECURSIVE DisconnectAll(_, _, _)
DisconnectAll(ac, md, cids) ==
    IF cids = <<>> THEN [ac |-> ac, md |-> md]
    ELSE LET r == DisconnectOp(ac, md, Head(cids))
         IN DisconnectAll(r.ac, r.md, Tail(cids))

RECURSIVE SumLen(_)
SumLen(ud) == IF ud = <<>> THEN 0 ELSE DictLen(ud[1].v) + SumLen(Tail(ud))

\* get_connection_count, lines 361-368, on the registry ac
OrgCount(ac, org) == IF org \notin DOMAIN ac THEN 0 ELSE SumLen(ac[org])

\* get_user_connection_count, lines 381-385, on the registry ac
UserCount(ac, org, user) ==
    IF org \in DOMAIN ac /\ DictHas(ac[org], user)
    THEN DictLen(DictGet(ac[org], user))
    ELSE 0

get_connection_count(org) == OrgCount(active_connections, org)

get_user_connection_count(org, user) == UserCount(active_connections, org, user)

\* --------------------------------------------------------------- transport
\* websocket.send_json raises on a transport whose peer is gone or that was closed
SendOk(tr, ws) == tr[ws].state = "open"

Deliver(tr, ws, m) ==
    IF SendOk(tr, ws) THEN [tr EXCEPT ![ws].recv = Append(@, m)] ELSE tr

\* websocket.close raises when the peer is gone
CloseOk(tr, ws) == tr[ws].state = "open"

Close(tr, ws) == IF CloseOk(tr, ws) THEN [tr EXCEPT ![ws].state = "closed"] ELSE tr

\* the event a broadcast call is given: every call has one of its own
EventIds == <<"e1", "e2", "e3", "e4">>
EventId == EventIds[calls + 1]

\* the top-level keys of the dict sent for a message of the given type: type
\* and data for the broadcasts (lines 171-174, 205-211, 238-241), type and
\* timestamp for the heartbeat (line 296); a flushed message is the dict its
\* caller queued, of which the manager knows nothing
WireKeys(type) ==
    IF type \in {"threat_detected", "session_revoked", "audit_log"}
    THEN {"type", "data"}
    ELSE IF type = "heartbeat" THEN {"type", "timestamp"}
    ELSE {}

\* what a transport received: the message type, the call's scope, the
\* payload, the top-level keys of the dict
Msg(type, org, user, body) ==
    [type |-> type, org |-> org, user |-> user, body |-> body,
     keys |-> WireKeys(type)]

\* ------------------------------------------------------------------- tasks
IdleTask ==
    [kind |-> "idle", pc |-> "idle", org |-> NoOrg, user |-> NoUser, cid |-> NoConn,
     ws |-> 0, uit |-> NoIter, cit |-> NoIter, cur_cid |-> NoConn, cur_ws |-> 0,
     ok |-> TRUE, snap |-> <<>>, si |-> 0, failed |-> <<>>, mi |-> 0,
     aliased |-> FALSE, held |-> <<>>, q0 |-> <<>>, n0 |-> 0, ev |-> "-",
     tried |-> <<>>, closed |-> <<>>, at0 |-> <<>>, outcome |-> "none"]

NoLast == [op |-> "none", org |-> NoOrg, user |-> NoUser, cid |-> NoConn,
           was |-> FALSE, res |-> FALSE, n |-> 0, twice |-> FALSE, arg |-> "-"]

\* a finished coroutine: what was asked, what it worked on and how it ended
Done(task, how) ==
    [IdleTask EXCEPT !.kind = task.kind, !.pc = "done", !.org = task.org,
                     !.user = task.user, !.cid = task.cid, !.ws = task.ws,
                     !.failed = task.failed, !.q0 = task.q0, !.n0 = task.n0,
                     !.ev = task.ev, !.tried = task.tried,
                     !.closed = task.closed, !.at0 = task.at0,
                     !.outcome = how]

\* the list a flush iterates: the queue's own list while the key still holds
\* it, the list as it was when the key was deleted afterwards
FlushList(task) ==
    IF task.aliased THEN message_queue[QueueKey(task.org, task.user)] ELSE task.held

\* a flush that takes the newest message first
FlushNewestFirst(msgs, mi) == msgs[Len(msgs) - mi]

\* for message in messages: the message after the mi messages already sent
FlushMessage(msgs, mi) == msgs[mi + 1]

\* del self.message_queue[queue_key]: the other flushes of the key keep the list
Unalias(ts, t, key) ==
    [s \in Slots |->
        IF s # t /\ ts[s].kind = "connect" /\ ts[s].pc = "flush" /\ ts[s].aliased
           /\ QueueKey(ts[s].org, ts[s].user) = key
        THEN [ts[s] EXCEPT !.aliased = FALSE, !.held = message_queue[key]]
        ELSE ts[s]]

\* the _heartbeat loops of a connection id: how many were started, where the
\* loop stands, whether its last send went through, how many sends it tried
NoBeat == [n |-> 0, pc |-> "none", ok |-> TRUE, beats |-> 0]

\* asyncio.create_task(self._heartbeat(connection_id))
StartHeartbeat(cid) ==
    [heartbeat_tasks EXCEPT ![cid] = [@ EXCEPT !.n = @ + 1, !.pc = "started"]]

\* connect, lines 97-128, up to the first send of _flush_queue
ConnectCall(t, org, user, cid, accepted) ==
    /\ tasks[t].pc = "idle"
    /\ Len(transport) < MaxSock
    /\ last' = NoLast
    /\ UNCHANGED <<calls, queued, fbvars>>
    /\ IF ~accepted
       THEN /\ tasks' = [tasks EXCEPT ![t] =
                   Done([IdleTask EXCEPT !.kind = "connect", !.org = org,
                                         !.user = user, !.cid = cid], "raised")]
            /\ UNCHANGED <<active_connections, connection_metadata, message_queue,
                           transport, used_ids, heartbeat_tasks>>
       ELSE LET ws == Len(transport) + 1
                tr == Append(transport, [org |-> org, user |-> user, cid |-> cid,
                                         state |-> "open", recv |-> <<>>])
                reg == Register(active_connections, connection_metadata,
                                org, user, cid, ws)
                key == QueueKey(org, user)
                conns == DictGet(reg.ac[org], user)
                nx == DictNext(conns, DictIter(conns))
                base == [IdleTask EXCEPT !.kind = "connect", !.org = org,
                                         !.user = user, !.cid = cid, !.ws = ws]
            IN /\ active_connections' = reg.ac
               /\ connection_metadata' = reg.md
               /\ used_ids' = used_ids \cup {cid}
               /\ UNCHANGED message_queue
               /\ IF key \notin DOMAIN message_queue
                  THEN /\ transport' = tr
                       /\ heartbeat_tasks' = StartHeartbeat(cid)
                       /\ tasks' = [tasks EXCEPT ![t] = Done(base, "returned")]
                  ELSE /\ transport' = Deliver(tr, conns[nx.at].v,
                                Msg("queued", org, user,
                                    FlushMessage(message_queue[key], 0)))
                       /\ UNCHANGED heartbeat_tasks
                       /\ tasks' = [tasks EXCEPT ![t] =
                              [base EXCEPT !.pc = "flush", !.cit = nx.it,
                                           !.cur_cid = conns[nx.at].k,
                                           !.cur_ws = conns[nx.at].v,
                                           !.ok = SendOk(tr, conns[nx.at].v),
                                           !.at0 = WsOf(DictItems(conns)),
                                           !.mi = 1, !.aliased = TRUE,
                                           !.q0 = message_queue[key]]]

\* a flush whose except clause lets the failure of a send through
FlushCaughtNever(ok) == ok

\* except Exception of lines 327-328: the failure of a send is logged and
\* the loops go on
FlushCaught(ok) == TRUE

\* _flush_queue, lines 323-331, resumed after a send, and the rest of connect
FlushStep(t) ==
    LET task == tasks[t]
        key == QueueKey(task.org, task.user)
        msgs == FlushList(task)
        conns == DictGet(active_connections[task.org], task.user)
        nx == DictNext(conns, task.cit)
    IN /\ task.kind = "connect" /\ task.pc = "flush"
       /\ last' = NoLast
       /\ UNCHANGED <<active_connections, connection_metadata, used_ids, calls,
                      queued, fbvars>>
       /\ IF ~FlushCaught(task.ok)
          THEN /\ tasks' = [tasks EXCEPT ![t] = Done(task, "raised")]
               /\ UNCHANGED <<message_queue, heartbeat_tasks, transport>>
          ELSE IF task.mi < Len(msgs)
          THEN /\ transport' = Deliver(transport, task.cur_ws,
                        Msg("queued", task.org, task.user,
                            FlushMessage(msgs, task.mi)))
               /\ tasks' = [tasks EXCEPT ![t].mi = task.mi + 1,
                                         ![t].ok = SendOk(transport, task.cur_ws)]
               /\ UNCHANGED <<message_queue, heartbeat_tasks>>
          ELSE IF nx.st = "error"
          THEN /\ tasks' = [tasks EXCEPT ![t] = Done(task, "raised")]
               /\ UNCHANGED <<message_queue, heartbeat_tasks, transport>>
          ELSE IF nx.st = "item"
          THEN /\ transport' = Deliver(transport, conns[nx.at].v,
                        Msg("queued", task.org, task.user, FlushMessage(msgs, 0)))
               /\ tasks' = [tasks EXCEPT ![t].cit = nx.it,
                                         ![t].cur_cid = conns[nx.at].k,
                                         ![t].cur_ws = conns[nx.at].v,
                                         ![t].ok = SendOk(transport, conns[nx.at].v),
                                         ![t].mi = 1]
               /\ UNCHANGED <<message_queue, heartbeat_tasks>>
          ELSE IF key \in DOMAIN message_queue
          THEN /\ message_queue' = [k \in DOMAIN message_queue \ {key} |->
                                       message_queue[k]]
               /\ tasks' = [Unalias(tasks, t, key) EXCEPT ![t] = Done(task, "returned")]
               /\ heartbeat_tasks' = StartHeartbeat(task.cid)
               /\ UNCHANGED transport
          ELSE /\ tasks' = [tasks EXCEPT ![t] = Done(task, "raised")]
               /\ UNCHANGED <<message_queue, heartbeat_tasks, transport>>

\* disconnect called from outside the manager (the endpoint, a supervisor)
Disconnect(cid) ==
    LET r == DisconnectOp(active_connections, connection_metadata, cid)
    IN /\ active_connections' = r.ac
       /\ connection_metadata' = r.md
       /\ UNCHANGED <<message_queue, transport, used_ids, heartbeat_tasks, tasks,
                      calls, queued, fbvars>>

\* what the caller of disconnect(cid) saw: whether cid was registered
SawDisconnect(cid) ==
    [NoLast EXCEPT !.op = "disconnect", !.cid = cid,
                   !.was = (cid \in DOMAIN connection_metadata)]

\* the cap of queue_message, line 348
QUEUE_CAP == 1000

\* a queue whose cap lets one more message in
QueueAppendOneMore(mq, key, m) ==
    LET q == IF key \in DOMAIN mq THEN mq[key] ELSE <<>>
        q2 == IF Len(q) <= QUEUE_CAP THEN Append(q, m) ELSE q
    IN [k \in DOMAIN mq \cup {key} |-> IF k = key THEN q2 ELSE mq[k]]

\* queue_message, lines 342-349
QueueAppend(mq, key, m) ==
    LET q == IF key \in DOMAIN mq THEN mq[key] ELSE <<>>
        q2 == IF Len(q) < QUEUE_CAP THEN Append(q, m) ELSE q
    IN [k \in DOMAIN mq \cup {key} |-> IF k = key THEN q2 ELSE mq[k]]

QueueMessage(org, user, m) ==
    /\ message_queue' = QueueAppend(message_queue, QueueKey(org, user), m)
    /\ queued' = queued + 1
    /\ last' = [NoLast EXCEPT !.op = "queue", !.org = org, !.user = user,
                              !.was = (QueueKey(org, user) \in DOMAIN message_queue)]
    /\ UNCHANGED <<active_connections, connection_metadata, transport, used_ids,
                   heartbeat_tasks, tasks, calls, fbvars>>

\* the peer of a registered transport goes away
Break(ws) ==
    /\ ws \in 1..Len(transport)
    /\ transport[ws].state = "open"
    /\ transport[ws].cid \in DOMAIN connection_metadata
    /\ transport' = [transport EXCEPT ![ws].state = "broken"]
    /\ last' = NoLast
    /\ UNCHANGED <<active_connections, connection_metadata, message_queue, used_ids,
                   heartbeat_tasks, tasks, calls, queued, fbvars>>

\* a loop that never looks at the registry
LoopForever(md, cid) == TRUE

\* while connection_id in self.connection_metadata, line 290
LoopOn(md, cid) == cid \in DOMAIN md

\* _heartbeat started, or resumed after the send of send_personal (which
\* returns True, or False after logging the failure, lines 277-281; the
\* result is dropped, line 294): the loop condition, then the sleep
HbLoop(cid) ==
    /\ heartbeat_tasks[cid].pc \in {"started", "send"}
    /\ heartbeat_tasks' = [heartbeat_tasks EXCEPT ![cid].pc =
           IF LoopOn(connection_metadata, cid) THEN "sleep" ELSE "ended"]
    /\ last' = NoLast
    /\ UNCHANGED <<active_connections, connection_metadata, message_queue, transport,
                   used_ids, tasks, calls, queued, fbvars>>

\* _heartbeat resumed after the sleep, lines 294-297: send_personal returns
\* False for an id without metadata or without a pool entry (then the loop
\* condition is next), otherwise it sends the heartbeat payload
HbWake(cid) ==
    LET md == connection_metadata
        org == md[cid].organization_id
        user == md[cid].user_id
        there == /\ org \in DOMAIN active_connections
                 /\ DictHas(active_connections[org], user)
                 /\ DictHas(DictGet(active_connections[org], user), cid)
        ws == DictGet(DictGet(active_connections[org], user), cid)
    IN /\ heartbeat_tasks[cid].pc = "sleep"
       /\ last' = NoLast
       /\ UNCHANGED <<active_connections, connection_metadata, message_queue,
                      used_ids, tasks, calls, queued, fbvars>>
       /\ IF cid \notin DOMAIN md \/ ~there
          THEN /\ heartbeat_tasks' = [heartbeat_tasks EXCEPT ![cid].pc =
                      IF LoopOn(md, cid) THEN "sleep" ELSE "ended"]
               /\ UNCHANGED transport
          ELSE /\ heartbeat_tasks[cid].beats < MaxBeats
               /\ transport' = Deliver(transport, ws, Msg("heartbeat", org, user, "hb"))
               /\ heartbeat_tasks' = [heartbeat_tasks EXCEPT
                      ![cid].pc = "send", ![cid].ok = SendOk(transport, ws),
                      ![cid].beats = @ + 1]

\* the caller takes the result of a finished coroutine
Retire(t) ==
    /\ tasks[t].pc = "done"
    /\ tasks' = [tasks EXCEPT ![t] = IdleTask]
    /\ last' = NoLast
    /\ UNCHANGED <<active_connections, connection_metadata, message_queue, transport,
                   used_ids, heartbeat_tasks, calls, queued, fbvars>>


\* ------------------------------------------------------------- broadcasts
\* the nested loops of broadcast_threat, lines 179-180: both iterate the live
\* dicts.  ud is active_connections[org]; inner says that the iterator cit over
\* the pool of the user at uit.pos is in progress.
RECURSIVE NextTarget(_, _, _, _)
NextTarget(ud, uit, cit, inner) ==
    IF inner
    THEN LET conns == ud[uit.pos].v
             nx == DictNext(conns, cit)
         IN IF nx.st = "item"
            THEN [st |-> "item", uit |-> uit, cit |-> nx.it,
                  cid |-> conns[nx.at].k, ws |-> conns[nx.at].v]
            ELSE IF nx.st = "error"
            THEN [st |-> "error", uit |-> uit, cit |-> cit, cid |-> NoConn, ws |-> 0]
            ELSE NextTarget(ud, uit, cit, FALSE)
    ELSE LET nu == DictNext(ud, uit)
         IN IF nu.st = "item"
            THEN NextTarget(ud, nu.it, DictIter(ud[nu.at].v), TRUE)
            ELSE [st |-> nu.st, uit |-> uit, cit |-> cit, cid |-> NoConn, ws |-> 0]

\* a broadcast that does not scope its lookup by the organization
OrgPoolUnscoped(org) ==
    active_connections[CHOOSE o \in DOMAIN active_connections :
                           o # org \/ DOMAIN active_connections = {org}]

\* the pool a broadcast for org iterates: self.active_connections[org_id]
OrgPool(org) == active_connections[org]

\* what the clean-up of broadcast_threat found: how many of the connections it
\* disconnects were still registered
SawReap(failed) ==
    [NoLast EXCEPT !.op = "reap",
                   !.n = Cardinality({i \in 1..Len(failed) :
                                         failed[i] \in DOMAIN connection_metadata})]

\* one round of broadcast_threat: the send to the target tg, or the end of the
\* loops (the failed connections are disconnected, lines 189-190), or the
\* RuntimeError of a dict that changed size under the iteration
ThreatRound(t, task, tg, failed) ==
    IF tg.st = "item"
    THEN /\ transport' = Deliver(transport, tg.ws,
                  Msg("threat_detected", task.org, NoUser, task.ev))
         /\ tasks' = [tasks EXCEPT ![t] =
                [task EXCEPT !.pc = "threat", !.uit = tg.uit, !.cit = tg.cit,
                             !.cur_cid = tg.cid, !.cur_ws = tg.ws,
                             !.ok = SendOk(transport, tg.ws), !.failed = failed,
                             !.tried = Append(task.tried, tg.ws)]]
         /\ last' = NoLast
         /\ UNCHANGED <<active_connections, connection_metadata>>
    ELSE IF tg.st = "stop"
    THEN LET r == DisconnectAll(active_connections, connection_metadata, failed)
         IN /\ active_connections' = r.ac
            /\ connection_metadata' = r.md
            /\ tasks' = [tasks EXCEPT ![t] =
                   Done([task EXCEPT !.failed = failed], "returned")]
            /\ last' = SawReap(failed)
            /\ UNCHANGED transport
    ELSE /\ tasks' = [tasks EXCEPT ![t] =
                Done([task EXCEPT !.failed = failed], "raised")]
         /\ last' = NoLast
         /\ UNCHANGED <<active_connections, connection_metadata, transport>>

\* broadcast_threat, lines 165-182, up to the first send
ThreatCall(t, org) ==
    LET task == [IdleTask EXCEPT !.kind = "threat", !.org = org, !.ev = EventId,
                             !.n0 = get_connection_count(org),
                             !.at0 = IF org \in DOMAIN active_connections
                                     THEN WsOf(AllItems(active_connections[org]))
                                     ELSE <<>>]
    IN /\ tasks[t].pc = "idle"
       /\ calls' = calls + 1
       /\ UNCHANGED <<message_queue, used_ids, heartbeat_tasks, queued, fbvars>>
       /\ IF org \notin DOMAIN active_connections
          THEN /\ tasks' = [tasks EXCEPT ![t] = Done(task, "returned")]
               /\ last' = NoLast
               /\ UNCHANGED <<active_connections, connection_metadata, transport>>
          ELSE ThreatRound(t, task,
                   NextTarget(OrgPool(org), DictIter(OrgPool(org)), NoIter, FALSE),
                   <<>>)

\* broadcast_threat resumed after a send, lines 183-190: the metadata of the
\* connection is touched (a KeyError when it is gone), a failure is collected
ThreatStep(t) ==
    LET task == tasks[t]
        failed == IF task.ok /\ task.cur_cid \in DOMAIN connection_metadata
                  THEN task.failed
                  ELSE Append(task.failed, task.cur_cid)
    IN /\ task.kind = "threat" /\ task.pc = "threat"
       /\ UNCHANGED <<message_queue, used_ids, heartbeat_tasks, calls, queued, fbvars>>
       /\ ThreatRound(t, task,
              NextTarget(OrgPool(task.org), task.uit, task.cit, TRUE), failed)

\* the loops of broadcast_audit, lines 245-246: the users' dict is iterated
\* live, each user's pool as a list(...) copy
RECURSIVE AuditTarget(_, _, _, _)
AuditTarget(ud, uit, snap, si) ==
    IF si < Len(snap)
    THEN [st |-> "item", uit |-> uit, snap |-> snap, si |-> si + 1]
    ELSE LET nu == DictNext(ud, uit)
         IN IF nu.st = "item"
            THEN AuditTarget(ud, nu.it, DictItems(ud[nu.at].v), 0)
            ELSE [st |-> nu.st, uit |-> uit, snap |-> snap, si |-> si]

AuditRound(t, task, tg) ==
    IF tg.st = "item"
    THEN /\ transport' = Deliver(transport, tg.snap[tg.si].v,
                  Msg("audit_log", task.org, NoUser, task.ev))
         /\ tasks' = [tasks EXCEPT ![t] =
                [task EXCEPT !.pc = "audit", !.uit = tg.uit, !.snap = tg.snap,
                             !.si = tg.si, !.cur_cid = tg.snap[tg.si].k,
                             !.cur_ws = tg.snap[tg.si].v,
                             !.ok = SendOk(transport, tg.snap[tg.si].v),
                             !.tried = Append(task.tried, tg.snap[tg.si].v)]]
    ELSE /\ tasks' = [tasks EXCEPT ![t] =
                Done(task, IF tg.st = "stop" THEN "returned" ELSE "raised")]
         /\ UNCHANGED transport

\* broadcast_audit, lines 233-248, up to the first send
AuditCall(t, org) ==
    LET task == [IdleTask EXCEPT !.kind = "audit", !.org = org, !.ev = EventId,
                             !.n0 = get_connection_count(org),
                             !.at0 = IF org \in DOMAIN active_connections
                                     THEN WsOf(AllItems(active_connections[org]))
                                     ELSE <<>>]
    IN /\ tasks[t].pc = "idle"
       /\ calls' = calls + 1
       /\ last' = NoLast
       /\ UNCHANGED <<active_connections, connection_metadata, message_queue,
                      used_ids, heartbeat_tasks, queued, fbvars>>
       /\ IF org \notin DOMAIN active_connections
          THEN /\ tasks' = [tasks EXCEPT ![t] = Done(task, "returned")]
               /\ UNCHANGED transport
          ELSE AuditRound(t, task,
                   AuditTarget(OrgPool(org), DictIter(OrgPool(org)), <<>>, 0))

\* an except clause that lets the failure of a send through
CaughtNever(ok) == ok

\* except Exception, line 249: whether the send went through (ok) or raised,
\* the loop goes on
Caught(ok) == TRUE

\* broadcast_audit resumed after a send, lines 249-250: a failure is logged
AuditStep(t) ==
    LET task == tasks[t]
    IN /\ task.kind = "audit" /\ task.pc = "audit"
       /\ last' = NoLast
       /\ UNCHANGED <<active_connections, connection_metadata, message_queue,
                      used_ids, heartbeat_tasks, calls, queued, fbvars>>
       /\ IF Caught(task.ok)
          THEN AuditRound(t, task,
                   AuditTarget(OrgPool(task.org), task.uit, task.snap, task.si))
          ELSE /\ tasks' = [tasks EXCEPT ![t] = Done(task, "raised")]
               /\ UNCHANGED transport

\* a revocation that works on the connections of the whole organization
RevokeTargetsOrg(org, user) == AllItems(OrgPool(org))

\* the connections broadcast_session_revocation works on, line 216:
\* list(connections.items()) of the target user's pool
RevokeTargets(org, user) == DictItems(DictGet(OrgPool(org), user))

\* broadcast_session_revocation: the send to the next connection of the copy,
\* or the return after the last one
RevokeRound(t, task) ==
    IF task.si < Len(task.snap)
    THEN LET e == task.snap[task.si + 1]
         IN /\ transport' = Deliver(transport, e.v,
                     Msg("session_revoked", task.org, task.user, task.ev))
            /\ tasks' = [tasks EXCEPT ![t] =
                   [task EXCEPT !.pc = "rv_sent", !.si = task.si + 1,
                                !.cur_cid = e.k, !.cur_ws = e.v,
                                !.ok = SendOk(transport, e.v),
                                !.tried = Append(task.tried, e.v)]]
    ELSE /\ tasks' = [tasks EXCEPT ![t] = Done(task, "returned")]
         /\ UNCHANGED transport

\* broadcast_session_revocation, lines 199-218, up to the first send
RevokeCall(t, org, user) ==
    LET task == [IdleTask EXCEPT !.kind = "revoke", !.org = org, !.user = user,
                             !.ev = EventId]
    IN /\ tasks[t].pc = "idle"
       /\ calls' = calls + 1
       /\ last' = NoLast
       /\ UNCHANGED <<active_connections, connection_metadata, message_queue,
                      used_ids, heartbeat_tasks, queued, fbvars>>
       /\ IF org \notin DOMAIN active_connections \/ ~DictHas(OrgPool(org), user)
          THEN /\ tasks' = [tasks EXCEPT ![t] = Done(task, "returned")]
               /\ UNCHANGED transport
          ELSE RevokeRound(t, [task EXCEPT !.snap = RevokeTargets(org, user),
                                           !.n0 = Len(RevokeTargets(org, user))])

\* lines 218-220 resumed after a successful send: the delay, then the close
RevokeClose(t) ==
    LET task == tasks[t]
    IN /\ task.kind = "revoke" /\ task.pc = "rv_sent" /\ task.ok
       /\ transport' = Close(transport, task.cur_ws)
       /\ tasks' = [tasks EXCEPT ![t].pc = "rv_closed",
                                 ![t].ok = CloseOk(transport, task.cur_ws),
                                 ![t].closed = Append(task.closed, task.cur_ws)]
       /\ last' = NoLast
       /\ UNCHANGED <<active_connections, connection_metadata, message_queue,
                      used_ids, heartbeat_tasks, calls, queued, fbvars>>

\* a revocation that disconnects only after a send and a close that went through
RevokeOnSuccess(ac, md, cid, ok) ==
    IF ok THEN DisconnectOp(ac, md, cid) ELSE [ac |-> ac, md |-> md]

\* what the finally clause of line 224 does to the registry, whether the send
\* and the close went through (ok) or one of them raised
RevokeFinally(ac, md, cid, ok) == DisconnectOp(ac, md, cid)

\* lines 221-224 after a failed send or after the close, then the next connection
RevokeStep(t) ==
    LET task == tasks[t]
        r == RevokeFinally(active_connections, connection_metadata, task.cur_cid,
                           task.ok)
    IN /\ task.kind = "revoke"
       /\ \/ task.pc = "rv_sent" /\ ~task.ok
          \/ task.pc = "rv_closed"
       /\ active_connections' = r.ac
       /\ connection_metadata' = r.md
       /\ last' = NoLast
       /\ UNCHANGED <<message_queue, used_ids, heartbeat_tasks, calls, queued, fbvars>>
       /\ RevokeRound(t, task)

\* revoke_user_session of api/v1/threats.py after its await of
\* broadcast_session_revocation returned, lines 312-315: the count it reports
\* as connections_closed
RevokeReport(t) ==
    LET task == tasks[t]
    IN /\ task.kind = "revoke" /\ task.pc = "done" /\ task.outcome = "returned"
       /\ last.op # "report"
       /\ last' = [NoLast EXCEPT !.op = "report", !.org = task.org,
                                 !.user = task.user,
                                 !.n = get_user_connection_count(task.org, task.user)]
       /\ UNCHANGED <<wsvars, fbvars>>

\* ---------------------------------------------------------- feedback buffer
LogIds == {"t1", "t2"}
\* a mapping that knows one more classification
classification_mapping_wider == {"threat", "anomaly", "normal", "invalid"}

\* FeedbackBuffer.classification_mapping, lines 29-33
classification_mapping == {"threat", "anomaly", "normal"}

\* feedback_item.get('corrected_classification') of an item without the key
None == "None"
\* the corrections an analyst may send: valid ones, an unknown one, none at all
Corrections == {"threat", "normal", "invalid", None}

\* a feedback item as add_feedback stores it; counted is the number of jobs
\* whose feedback_count it entered, late whether it arrived between the
\* snapshot and the marking of a trigger_retraining in progress
NewItemScored(id, orig, cls, has, score, late) ==
    [threat_log_id |-> id, original_classification |-> orig,
     corrected_classification |-> cls,
     has_confidence |-> has, confidence_score |-> score,
     is_processed |-> FALSE, processed_at |-> 0, counted |-> 0, late |-> late]

\* an item of a feedback dict that has no confidence_score
NewItemFrom(id, orig, cls, late) == NewItemScored(id, orig, cls, FALSE, 0, late)

\* the item of an event the engine classified as a threat
NewItem(id, cls, late) == NewItemFrom(id, "threat", cls, late)

Unprocessed(buf) == {i \in 1..Len(buf) : ~buf[i].is_processed}

\* sum(1 for item in self.buffer if not item.get('is_processed', False))
RECURSIVE unprocessed_count(_)
unprocessed_count(buf) ==
    IF buf = <<>> THEN 0
    ELSE (IF buf[1].is_processed THEN 0 ELSE 1) + unprocessed_count(Tail(buf))

\* a readiness check that wants more than the threshold
should_retrain_above(buf, threshold) == unprocessed_count(buf) > threshold

\* a readiness check that is content with one item less
should_retrain_early(buf, threshold) == unprocessed_count(buf) + 1 >= threshold

\* should_retrain, lines 77-80
should_retrain(buf, threshold) == unprocessed_count(buf) >= threshold

\* get_unprocessed_feedback, lines 82-84: the list holds the buffer's own
\* items, here their positions in the buffer
RECURSIVE UnprocessedFrom(_, _)
UnprocessedFrom(buf, i) ==
    IF i > Len(buf) THEN <<>>
    ELSE IF buf[i].is_processed THEN UnprocessedFrom(buf, i + 1)
    ELSE <<i>> \o UnprocessedFrom(buf, i + 1)

get_unprocessed_feedback(buf) == UnprocessedFrom(buf, 1)

\* feedback_ids = [item['threat_log_id'] for item in unprocessed]
IdsOf(buf, items) == [k \in 1..Len(items) |-> buf[items[k]].threat_log_id]

InList(x, xs) == \E i \in 1..Len(xs) : xs[i] = x

\* a marking that flags nothing
mark_nothing(buf, ids, now) == [buf |-> buf, count |-> 0]

\* mark_as_processed, lines 93-99: every item whose id is in the list is
\* flagged and stamped; the count returned is the number of such items
mark_as_processed(buf, ids, now) ==
    [buf |-> [i \in 1..Len(buf) |->
                 IF InList(buf[i].threat_log_id, ids)
                 THEN [buf[i] EXCEPT !.is_processed = TRUE, !.processed_at = now]
                 ELSE buf[i]],
     count |-> Cardinality({i \in 1..Len(buf) : InList(buf[i].threat_log_id, ids)})]

\* the job of trigger_retraining, lines 193-199
NewJob(buf, unprocessed) ==
    [status |-> "pending", feedback_count |-> Len(unprocessed),
     feedback_ids |-> IdsOf(buf, unprocessed)]

\* the items of a snapshot enter one more feedback_count
Counted(buf, unprocessed) ==
    [i \in 1..Len(buf) |->
        IF InList(i, unprocessed) THEN [buf[i] EXCEPT !.counted = @ + 1]
        ELSE buf[i]]

\* confidence scores in hundredths: 1 is 100
ONE == 100

Min2(a, b) == IF a < b THEN a ELSE b
Max2(a, b) == IF a > b THEN a ELSE b

\* a clamp that only caps the score
clamp_above(confidence) ==
    IF ~(0 <= confidence /\ confidence <= ONE) THEN Min2(ONE, confidence)
    ELSE confidence

\* lines 58-61: the score the item holds after the range test
clamp(confidence) ==
    IF ~(0 <= confidence /\ confidence <= ONE)
    THEN Max2(0, Min2(ONE, confidence))
    ELSE confidence

\* add_feedback, lines 51-71, of an item whose original_classification is
\* orig and which has a numeric confidence_score (has) or none
AddFeedbackScored(id, orig, cls, has, score) ==
    /\ Len(buffer) < MaxItems
    /\ IF cls \notin classification_mapping
       THEN /\ UNCHANGED buffer
            /\ last' = [NoLast EXCEPT !.op = "add", !.res = FALSE, !.arg = cls,
                                      !.was = has, !.n = score]
       ELSE /\ buffer' = Append(buffer,
                                NewItemScored(id, orig, cls, has,
                                              IF has THEN clamp(score) ELSE score,
                                              trig.pc = "snapshot"))
            /\ last' = [NoLast EXCEPT !.op = "add", !.res = TRUE, !.arg = cls,
                                      !.was = has, !.n = score]
    /\ UNCHANGED <<wsvars, retraining_threshold, retraining_jobs, clock, report, trig>>

\* add_feedback of an item without a confidence_score
AddFeedbackFrom(id, orig, cls) == AddFeedbackScored(id, orig, cls, FALSE, 0)

\* add_feedback for an event the engine classified as a threat
AddFeedback(id, cls) == AddFeedbackFrom(id, "threat", cls)

\* nothing returned by get_feedback_statistics yet
NoReport == [total_feedback |-> 0]

\* the classifications the engine may have given an event
Originals == {"threat", "normal"}

\* round(x, 4) of x = count / total, as a number of ten-thousandths: the
\* nearest one, the even one of two equally near
round4(count, total) ==
    LET q == (count * 10000) \div total
        r == (count * 10000) % total
    IN IF 2 * r > total THEN q + 1
       ELSE IF 2 * r < total THEN q
       ELSE IF q % 2 = 0 THEN q ELSE q + 1

\* a correction count that leaves the processed items out
correction_count_unprocessed(buf) ==
    Cardinality({i \in 1..Len(buf) :
                    /\ ~buf[i].is_processed
                    /\ buf[i].original_classification
                           # buf[i].corrected_classification})

\* correction_count, lines 116-119: the items, processed or not, whose
\* original and corrected classifications differ
correction_count(buf) ==
    Cardinality({i \in 1..Len(buf) :
                    buf[i].original_classification
                        # buf[i].corrected_classification})

\* get_feedback_statistics, lines 101-128; correction_rate in ten-thousandths
get_feedback_statistics(buf, threshold) ==
    IF buf = <<>>
    THEN [total_feedback |-> 0, processed |-> 0, unprocessed |-> 0,
          correction_rate |-> 0]
    ELSE LET total == Len(buf)
             processed == Cardinality({i \in 1..Len(buf) : buf[i].is_processed})
             unprocessed == total - processed
         IN [total_feedback |-> total,
             processed |-> processed,
             unprocessed |-> unprocessed,
             correction_rate |-> round4(correction_count(buf), total),
             feedback_until_retrain |->
                 IF threshold - unprocessed > 0 THEN threshold - unprocessed ELSE 0]

\* a call of get_feedback_statistics(), lines 101-128
GetStatistics ==
    /\ trig.pc = "idle"
    /\ report' = get_feedback_statistics(buffer, retraining_threshold)
    /\ last' = [NoLast EXCEPT !.op = "stats"]
    /\ UNCHANGED <<wsvars, retraining_threshold, buffer, retraining_jobs, clock, trig>>

\* a distribution that counts the processed items as well
distribution_of_all(buf) ==
    LET keys == {buf[i].corrected_classification : i \in 1..Len(buf)}
    IN [c \in keys |->
           Cardinality({i \in 1..Len(buf) : buf[i].corrected_classification = c})]

\* the loop of lines 134-137 over the items of the list unprocessed: a key
\* for every classification met, with the number of times it was met
distribution_of(buf, unprocessed) ==
    LET keys == {buf[unprocessed[k]].corrected_classification :
                    k \in 1..Len(unprocessed)}
    IN [c \in keys |->
           Cardinality({k \in 1..Len(unprocessed) :
                           buf[unprocessed[k]].corrected_classification = c})]

\* get_classification_distribution, lines 130-139
get_classification_distribution(buf) ==
    distribution_of(buf, get_unprocessed_feedback(buf))

\* a call of get_classification_distribution(), lines 130-139
GetDistribution ==
    /\ trig.pc = "idle"
    /\ report' = get_classification_distribution(buffer)
    /\ last' = [NoLast EXCEPT !.op = "dist"]
    /\ UNCHANGED <<wsvars, retraining_threshold, buffer, retraining_jobs, clock, trig>>

\* trigger_retraining, lines 179-212, run without interruption
TriggerRetraining ==
    LET unprocessed == get_unprocessed_feedback(buffer)
        marked == mark_as_processed(Counted(buffer, unprocessed),
                                    IdsOf(buffer, unprocessed), clock + 1)
        seen == [NoLast EXCEPT !.op = "trigger", !.n = Cardinality(Unprocessed(buffer)),
                    !.twice = (last.op = "trigger" /\ last.res
                               /\ last.n = retraining_threshold)]
    IN /\ trig.pc = "idle"
       /\ IF ~should_retrain(buffer, retraining_threshold)
          THEN /\ last' = [seen EXCEPT !.res = FALSE]
               /\ UNCHANGED <<buffer, retraining_jobs, clock>>
          ELSE /\ retraining_jobs' = Append(retraining_jobs,
                                            NewJob(buffer, unprocessed))
               /\ buffer' = marked.buf
               /\ clock' = clock + 1
               /\ last' = [seen EXCEPT !.res = TRUE]
       /\ UNCHANGED <<wsvars, retraining_threshold, report, trig>>

\* the statuses a trainer reports for a job
Reported == {"running", "completed", "failed"}

\* a trainer reports the status st of job j to the orchestrator.  The class,
\* lines 170-230, has the methods trigger_retraining, get_retraining_status,
\* add_feedback and get_feedback_stats and none that takes a status: the
\* report finds no entry point (AttributeError) and the job stays as it is
ReportStatus(j, st) ==
    /\ trig.pc = "idle"
    /\ j \in 1..Len(retraining_jobs)
    /\ last' = [NoLast EXCEPT !.op = "status", !.n = j, !.arg = st, !.res = FALSE]
    /\ UNCHANGED <<wsvars, fbvars>>

\* sum(1 for job in self.retraining_jobs if job['status'] == st)
RECURSIVE status_count(_, _)
status_count(jobs, st) ==
    IF jobs = <<>> THEN 0
    ELSE (IF jobs[1].status = st THEN 1 ELSE 0) + status_count(Tail(jobs), st)

\* a status dict whose total leaves the pending jobs out
get_retraining_status_started(jobs) ==
    [total_jobs |-> Len(jobs) - status_count(jobs, "pending"),
     pending |-> status_count(jobs, "pending"),
     running |-> status_count(jobs, "running"),
     completed |-> status_count(jobs, "completed"),
     failed |-> status_count(jobs, "failed")]

\* get_retraining_status, lines 214-222
get_retraining_status(jobs) ==
    [total_jobs |-> Len(jobs),
     pending |-> status_count(jobs, "pending"),
     running |-> status_count(jobs, "running"),
     completed |-> status_count(jobs, "completed"),
     failed |-> status_count(jobs, "failed")]

\* a call of get_retraining_status()
GetRetrainingStatus ==
    /\ trig.pc = "idle"
    /\ report' = get_retraining_status(retraining_jobs)
    /\ last' = [NoLast EXCEPT !.op = "jobs"]
    /\ UNCHANGED <<wsvars, retraining_threshold, buffer, retraining_jobs, clock, trig>>

\* the id lists a caller hands to mark_as_processed: known ids and an unknown one
MarkLists == {<<>>, <<"t1">>, <<"t2">>, <<"tx">>, <<"t1", "t2">>, <<"t1", "tx">>}

\* a call of mark_as_processed(ids), lines 86-99; n is the count it returns
MarkProcessed(ids) ==
    LET marked == mark_as_processed(buffer, ids, clock + 1)
    IN /\ clock < MaxItems
       /\ trig.pc = "idle"
       /\ buffer' = marked.buf
       /\ clock' = clock + 1
       /\ last' = [NoLast EXCEPT !.op = "mark", !.n = marked.count]
       /\ UNCHANGED <<wsvars, retraining_threshold, retraining_jobs, report, trig>>

\* trigger_retraining on a thread of its own, which add_feedback on another
\* thread may interleave with: the check of line 181 ...
TrigCheck ==
    /\ trig.pc = "idle"
    /\ IF should_retrain(buffer, retraining_threshold)
       THEN /\ trig' = [trig EXCEPT !.pc = "checked"]
            /\ last' = NoLast
       ELSE /\ UNCHANGED trig
            /\ last' = [NoLast EXCEPT !.op = "trigger", !.res = FALSE,
                                      !.n = Cardinality(Unprocessed(buffer))]
    /\ UNCHANGED <<wsvars, retraining_threshold, buffer, retraining_jobs, clock, report>>

\* ... the snapshot and the job, lines 189-201 ...
TrigSnapshot ==
    /\ trig.pc = "checked"
    /\ trig' = [pc |-> "snapshot",
                ids |-> IdsOf(buffer, get_unprocessed_feedback(buffer))]
    /\ retraining_jobs' = Append(retraining_jobs,
                                 NewJob(buffer, get_unprocessed_feedback(buffer)))
    /\ buffer' = Counted(buffer, get_unprocessed_feedback(buffer))
    /\ last' = NoLast
    /\ UNCHANGED <<wsvars, retraining_threshold, clock, report>>

\* ... and the marking, lines 204-208
TrigMark ==
    /\ trig.pc = "snapshot"
    /\ buffer' = mark_as_processed(buffer, trig.ids, clock + 1).buf
    /\ clock' = clock + 1
    /\ trig' = [pc |-> "idle", ids |-> <<>>]
    /\ last' = [NoLast EXCEPT !.op = "trigger", !.res = TRUE]
    /\ UNCHANGED <<wsvars, retraining_threshold, retraining_jobs, report>>

\* ------------------------------------------------------------ specifications
\* FeedbackBuffer.__init__, line 20: the default retraining threshold
DEFAULT_THRESHOLD == 100

InitManager ==
    /\ active_connections = [o \in {} |-> <<>>]
    /\ connection_metadata = [c \in {} |-> <<>>]
    /\ message_queue = [k \in {} |-> <<>>]
    /\ transport = <<>>
    /\ used_ids = {}
    /\ heartbeat_tasks = [c \in ConnIds |-> NoBeat]
    /\ tasks = [t \in Slots |-> IdleTask]
    /\ calls = 0
    /\ queued = 0

InitFeedback ==
    /\ buffer = <<>>
    /\ retraining_jobs = <<>>
    /\ clock = 0
    /\ report = NoReport
    /\ trig = [pc |-> "idle", ids |-> <<>>]

Init ==
    /\ InitManager
    /\ InitFeedback
    /\ retraining_threshold = DEFAULT_THRESHOLD
    /\ last = NoLast

\* the caller of connect allocates a fresh connection_id for every connection
FreshId == IdSeq[Cardinality(used_ids) + 1]

\* no coroutine is in progress or waits for its caller
Quiet == \A t \in Slots : tasks[t].pc = "idle"

\* The registry and the broadcasts, one call at a time; the peer of a
\* registered transport may go away at any moment.
Next ==
    \/ \E org \in Orgs, user \in Users, accepted \in BOOLEAN :
           Quiet /\ ConnectCall(1, org, user, FreshId, accepted)
    \/ \E cid \in DOMAIN connection_metadata :
           Quiet /\ Disconnect(cid) /\ last' = NoLast
    \/ \E ws \in 1..MaxSock : tasks[1].pc # "done" /\ Break(ws)
    \/ \E org \in Orgs : Quiet /\ calls < MaxCalls /\ ThreatCall(1, org)
    \/ ThreatStep(1)
    \/ \E org \in Orgs : Quiet /\ calls < MaxCalls /\ AuditCall(1, org)
    \/ AuditStep(1)
    \/ \E org \in Orgs, user \in Users :
           Quiet /\ calls < MaxCalls /\ RevokeCall(1, org, user)
    \/ RevokeClose(1)
    \/ RevokeStep(1)
    \/ Retire(1)

Spec == Init /\ [][Next]_vars

\* The registry under its callers of disconnect: the endpoint or a supervisor
\* (any id handed out so far, registered or not) and the failure paths of the
\* broadcasts.
RegistryKeys == {<<"orgA", "u1">>, <<"orgA", "u2">>, <<"orgB", "u1">>}

NextRegistry ==
    \/ \E k \in RegistryKeys :
           Quiet /\ ConnectCall(1, k[1], k[2], FreshId, TRUE)
    \/ \E cid \in used_ids : Disconnect(cid) /\ last' = SawDisconnect(cid)
    \/ \E ws \in 1..MaxSock : tasks[1].pc # "done" /\ Break(ws)
    \/ \E org \in Orgs : Quiet /\ calls < MaxCalls /\ ThreatCall(1, org)
    \/ ThreatStep(1)
    \/ \E k \in RegistryKeys :
           Quiet /\ calls < MaxCalls /\ RevokeCall(1, k[1], k[2])
    \/ RevokeClose(1)
    \/ RevokeStep(1)
    \/ Retire(1)

SpecRegistry == Init /\ [][NextRegistry]_vars

\* The offline queue and its flush on connect, one call at a time.
\* the same user id under two organizations
FlushKeys == {<<"orgA", "u1">>, <<"orgB", "u1">>}

NextFlush ==
    \/ \E k \in FlushKeys :
           Quiet /\ ConnectCall(1, k[1], k[2], FreshId, TRUE)
    \/ FlushStep(1)
    \/ \E k \in FlushKeys, m \in QMsgs :
           Quiet /\ queued < MaxQueued /\ QueueMessage(k[1], k[2], m)
    \/ \E cid \in DOMAIN connection_metadata :
           Quiet /\ Disconnect(cid) /\ last' = NoLast
    \/ \E ws \in 1..MaxSock : tasks[1].pc # "done" /\ Break(ws)
    \/ Retire(1)

SpecFlush == Init /\ [][NextFlush]_vars

\* The heartbeat loops beside connect and disconnect.  The event loop runs
\* every task that is ready: a sleep ends, a send returns or raises.
HbIds == {IdSeq[i] : i \in 1..MaxHbSock}

NextHeartbeat ==
    \/ /\ Quiet /\ Len(transport) < MaxHbSock
       /\ ConnectCall(1, "orgA", "u1", FreshId, TRUE)
    \/ Retire(1)
    \/ \E cid \in DOMAIN connection_metadata : Disconnect(cid) /\ last' = NoLast
    \/ \E ws \in 1..MaxHbSock : Break(ws)
    \/ \E cid \in HbIds : HbLoop(cid)
    \/ \E cid \in HbIds : HbWake(cid)

SpecHeartbeat ==
    /\ Init
    /\ [][NextHeartbeat]_vars
    /\ \A cid \in HbIds : WF_vars(HbLoop(cid)) /\ WF_vars(HbWake(cid))

\* The offline queue of one user filled up to its cap and beyond.
NextQueue ==
    queued < QUEUE_CAP + MaxQueued /\ QueueMessage("orgA", "u1", "m1")

SpecQueue == Init /\ [][NextQueue]_vars

\* A revocation in one coroutine and connects in another, which run while the
\* revocation is suspended in a send, the delay or a close.
RevokeKeys == {<<"orgA", "u1">>, <<"orgA", "u2">>}

NextRevoke ==
    \/ \E k \in RevokeKeys : ConnectCall(2, k[1], k[2], FreshId, TRUE)
    \/ Retire(2)
    \/ \E ws \in 1..MaxSock : tasks[1].pc # "done" /\ Break(ws)
    \/ \E k \in RevokeKeys : calls < MaxCalls /\ RevokeCall(1, k[1], k[2])
    \/ RevokeClose(1)
    \/ RevokeStep(1)
    \/ Retire(1)

SpecRevoke == Init /\ [][NextRevoke]_vars

\* The registry under callers that pass connect any connection_id that is
\* not registered at the moment, one call at a time.
CallerIds == {"c1", "c2"}

NextIds ==
    \/ \E k \in RegistryKeys, cid \in CallerIds \ DOMAIN connection_metadata :
           Quiet /\ ConnectCall(1, k[1], k[2], cid, TRUE)
    \/ \E cid \in DOMAIN connection_metadata :
           Quiet /\ Disconnect(cid) /\ last' = SawDisconnect(cid)
    \/ \E ws \in 1..MaxSock : tasks[1].pc # "done" /\ Break(ws)
    \/ Retire(1)

SpecIds == Init /\ [][NextIds]_vars

\* The registry under callers that pass connect any connection_id, one that
\* is registered at the moment included, one call at a time.
NextReuse ==
    \/ \E k \in RegistryKeys, cid \in CallerIds :
           Quiet /\ ConnectCall(1, k[1], k[2], cid, TRUE)
    \/ \E cid \in DOMAIN connection_metadata :
           Quiet /\ Disconnect(cid) /\ last' = SawDisconnect(cid)
    \/ \E ws \in 1..MaxSock : tasks[1].pc # "done" /\ Break(ws)
    \/ Retire(1)

SpecReuse == Init /\ [][NextReuse]_vars

\* Connects of one user in two coroutines, each of which may run while the
\* other is suspended in a send of its flush; the handshake may fail.
NextConnect ==
    \/ \E t \in Slots, accepted \in BOOLEAN :
           ConnectCall(t, "orgA", "u1", FreshId, accepted)
    \/ \E t \in Slots : FlushStep(t)
    \/ \E m \in QMsgs :
           Quiet /\ queued < MaxQueued /\ QueueMessage("orgA", "u1", m)
    \/ \E ws \in 1..MaxSock : Break(ws)
    \/ \E t \in Slots : Retire(t)

SpecConnect == Init /\ [][NextConnect]_vars

\* Connects and disconnects of one user and queue_message calls for that
\* user, each of which may run while a flush is suspended in a send; every
\* queue_message call brings a message of its own.
QueueSeq == <<"m1", "m2", "m3", "m4">>

NextPending ==
    \/ \E t \in Slots : ConnectCall(t, "orgA", "u1", FreshId, TRUE)
    \/ \E t \in Slots : FlushStep(t)
    \/ \E t \in Slots : Retire(t)
    \/ /\ queued < MaxQueued /\ queued < Len(QueueSeq)
       /\ QueueMessage("orgA", "u1", QueueSeq[queued + 1])
    \/ \E cid \in DOMAIN connection_metadata : Disconnect(cid) /\ last' = NoLast

SpecPending == Init /\ [][NextPending]_vars

\* The admin's session revocation, one request at a time: the broadcast, then
\* the report.
NextEndpoint ==
    \/ \E k \in RegistryKeys :
           Quiet /\ ConnectCall(1, k[1], k[2], FreshId, TRUE)
    \/ \E ws \in 1..MaxSock : tasks[1].pc # "done" /\ Break(ws)
    \/ \E k \in RegistryKeys :
           Quiet /\ calls < MaxCalls /\ RevokeCall(1, k[1], k[2])
    \/ RevokeClose(1)
    \/ RevokeStep(1)
    \/ RevokeReport(1)
    \/ Retire(1)

SpecEndpoint == Init /\ [][NextEndpoint]_vars

\* Tenants whose identifiers contain the ':' of the queue key: messages are
\* queued for the user of one organization only, and users of both connect.
QueuedFor == <<"a:b", "c">>
ColonKeys == {QueuedFor, <<"a", "b:c">>}

NextColon ==
    \/ \E k \in ColonKeys :
           Quiet /\ ConnectCall(1, k[1], k[2], FreshId, TRUE)
    \/ FlushStep(1)
    \/ \E m \in QMsgs :
           Quiet /\ queued < MaxQueued /\ QueueMessage(QueuedFor[1], QueuedFor[2], m)
    \/ \E cid \in DOMAIN connection_metadata :
           Quiet /\ Disconnect(cid) /\ last' = NoLast
    \/ \E ws \in 1..MaxSock : tasks[1].pc # "done" /\ Break(ws)
    \/ Retire(1)

SpecColon == Init /\ [][NextColon]_vars

\* A broadcast or a connect with its flush in one coroutine, while connects
\* in another coroutine and disconnects for the same organization run
\* whenever the first is suspended in a send.
NextAsync ==
    \/ \E k \in RevokeKeys : Quiet /\ ConnectCall(1, k[1], k[2], FreshId, TRUE)
    \/ FlushStep(1)
    \/ Retire(1)
    \/ \E k \in RevokeKeys :
           /\ QueueKey(k[1], k[2]) \notin DOMAIN message_queue
           /\ ConnectCall(2, k[1], k[2], FreshId, TRUE)
    \/ Retire(2)
    \/ Quiet /\ queued < MaxQueued /\ QueueMessage("orgA", "u1", "m1")
    \/ \E cid \in DOMAIN connection_metadata : Disconnect(cid) /\ last' = NoLast
    \/ \E ws \in 1..MaxSock : tasks[1].pc # "done" /\ Break(ws)
    \/ calls < MaxCalls /\ ThreatCall(1, "orgA")
    \/ ThreatStep(1)
    \/ calls < MaxCalls /\ AuditCall(1, "orgA")
    \/ AuditStep(1)

SpecAsync == Init /\ [][NextAsync]_vars

\* The feedback buffer and the orchestrator, one call at a time, for every
\* configured threshold.
InitFB ==
    /\ InitManager
    /\ InitFeedback
    /\ retraining_threshold \in 1..MaxThreshold
    /\ last = NoLast

NextFB ==
    \/ \E id \in LogIds, cls \in Corrections : AddFeedback(id, cls)
    \/ TriggerRetraining

SpecFB == InitFB /\ [][NextFB]_vars

\* The orchestrator under add_feedback, trigger_retraining and a trainer that
\* reports the progress of the jobs.
NextJobs ==
    \/ \E id \in LogIds, cls \in Corrections : AddFeedback(id, cls)
    \/ TriggerRetraining
    \/ \E j \in 1..MaxItems, st \in Reported : ReportStatus(j, st)

SpecJobs == InitFB /\ [][NextJobs]_vars

\* The orchestrator under add_feedback, trigger_retraining, a trainer that
\* reports the progress of the jobs and a dashboard that reads the status.
NextStatus ==
    \/ \E cls \in {"threat", "invalid"} : AddFeedback("t1", cls)
    \/ TriggerRetraining
    \/ \E j \in 1..MaxItems, st \in Reported : ReportStatus(j, st)
    \/ GetRetrainingStatus

SpecStatus == InitFB /\ [][NextStatus]_vars

\* The buffer under add_feedback with confidence scores in and out of range,
\* and trigger_retraining.
Scores == {0 - 50, 0, 50, ONE, ONE + 50}

NextScore ==
    \/ \E cls \in {"threat", "invalid"}, score \in Scores :
           AddFeedbackScored("t1", "threat", cls, TRUE, score)
    \/ \E cls \in {"threat", "invalid"} : AddFeedbackFrom("t1", "threat", cls)
    \/ TriggerRetraining

SpecScore == InitFB /\ [][NextScore]_vars

\* The buffer under callers of add_feedback and mark_as_processed.
NextMark ==
    \/ \E id \in LogIds, cls \in Corrections : AddFeedback(id, cls)
    \/ \E ids \in MarkLists : MarkProcessed(ids)

SpecMark == InitFB /\ [][NextMark]_vars

\* The buffer under add_feedback, trigger_retraining and a reader of the
\* statistics, one call at a time.
NextStats ==
    \/ \E orig \in Originals, cls \in Corrections : AddFeedbackFrom("t1", orig, cls)
    \/ TriggerRetraining
    \/ GetStatistics

SpecStats == InitFB /\ [][NextStats]_vars

\* The buffer under add_feedback, trigger_retraining and a reader of the
\* distribution, one call at a time.
NextDist ==
    \/ \E id \in LogIds, cls \in Corrections : AddFeedback(id, cls)
    \/ TriggerRetraining
    \/ GetDistribution

SpecDist == InitFB /\ [][NextDist]_vars

\* trigger_retraining on one thread, add_feedback on another.
NextThreads ==
    \/ \E id \in LogIds, cls \in Corrections : AddFeedback(id, cls)
    \/ TrigCheck
    \/ TrigSnapshot
    \/ TrigMark

SpecThreads == InitFB /\ [][NextThreads]_vars

\* ------------------------------------------------------------------ claims
Sockets == 1..Len(transport)

Registered(ws) == transport[ws].cid \in DOMAIN connection_metadata

BroadcastTypes == {"threat_detected", "audit_log", "session_revoked"}

\* C1: whatever connects, disconnects and broadcasts came before, a transport
\* registered under one organization has received no threat, audit or
\* revocation message of a broadcast made for another organization.
C1_TenantIsolation ==
    \A ws \in Sockets : \A i \in 1..Len(transport[ws].recv) :
        transport[ws].recv[i].type \in BroadcastTypes
            => transport[ws].recv[i].org = transport[ws].org

\* a broadcast for one organization has returned after delivering to its
\* connection while an open connection of another organization is registered
C1_Witness ==
    \E a \in Sockets, b \in Sockets :
        /\ transport[a].org # transport[b].org
        /\ Registered(a) /\ Registered(b)
        /\ transport[b].state = "open"
        /\ tasks[1].pc = "done" /\ tasks[1].outcome = "returned"
        /\ tasks[1].kind \in {"threat", "audit"}
        /\ tasks[1].org = transport[a].org
        /\ Len(transport[a].recv) = 1

\* C2: when broadcast_session_revocation for a user who had N >= 1 live
\* connections returns, with no other call in between, it has returned
\* normally and the user has no connection left, whichever sends or closes failed.
C2_RevocationLeavesNone ==
    \A t \in Slots :
        (tasks[t].pc = "done" /\ tasks[t].kind = "revoke" /\ tasks[t].n0 >= 1)
            => /\ tasks[t].outcome = "returned"
               /\ get_user_connection_count(tasks[t].org, tasks[t].user) = 0

\* a revocation of a user with two connections has returned; the peer of one
\* was gone (its send or close raised), the other was closed
C2_Witness ==
    \E a \in Sockets, b \in Sockets :
        /\ tasks[1].pc = "done" /\ tasks[1].kind = "revoke" /\ tasks[1].n0 = 2
        /\ transport[a].state = "broken" /\ transport[b].state = "closed"
        /\ transport[a].org = tasks[1].org /\ transport[a].user = tasks[1].user
        /\ transport[b].org = tasks[1].org /\ transport[b].user = tasks[1].user

\* C3: an item that add_feedback stored between the snapshot and the marking
\* of a trigger_retraining in progress is marked processed only by a later
\* trigger whose snapshot holds it.
C3_LateItemUntouched ==
    \A i \in 1..Len(buffer) :
        (buffer[i].late /\ buffer[i].counted = 0) => ~buffer[i].is_processed

\* the ids registered under (org, user) by the metadata md
RegisteredIds(md, org, user) ==
    {c \in DOMAIN md : md[c].organization_id = org /\ md[c].user_id = user}

\* C8: a disconnect(c) of a registered c removes c and lowers the count of its
\* organization and of its user by exactly one, leaving every other count as
\* it was; a disconnect(c) of an id that is not registered (a second call, or
\* a call after a broadcast already removed c) changes nothing; and whoever
\* calls disconnect, and however often, every step lowers the count of a user
\* by exactly the number of that user's ids that left the registry.
C8_DisconnectIdempotent ==
    /\ [][last'.op = "disconnect" =>
             LET c == last'.cid
             IN IF last'.was
                THEN LET org == connection_metadata[c].organization_id
                         user == connection_metadata[c].user_id
                     IN /\ DOMAIN connection_metadata'
                               = DOMAIN connection_metadata \ {c}
                        /\ OrgCount(active_connections', org)
                               = OrgCount(active_connections, org) - 1
                        /\ UserCount(active_connections', org, user)
                               = UserCount(active_connections, org, user) - 1
                        /\ \A o \in Orgs, u \in Users :
                               <<o, u>> # <<org, user>>
                                   => UserCount(active_connections', o, u)
                                          = UserCount(active_connections, o, u)
                ELSE UNCHANGED <<active_connections, connection_metadata,
                                 message_queue, transport, heartbeat_tasks, tasks>>]_vars
    /\ [][\/ UNCHANGED <<active_connections, connection_metadata>>
          \/ \A o \in Orgs, u \in Users :
             UserCount(active_connections', o, u)
                 = UserCount(active_connections, o, u)
                   - Cardinality(RegisteredIds(connection_metadata, o, u)
                                     \ DOMAIN connection_metadata')
                   + Cardinality(RegisteredIds(connection_metadata', o, u)
                                     \ DOMAIN connection_metadata)]_vars

\* the clean-up of a threat broadcast has called disconnect for a connection
\* that another caller had disconnected while the broadcast was suspended
C8_Witness ==
    /\ last.op = "reap" /\ last.n < Len(tasks[1].failed)
    /\ tasks[1].pc = "done" /\ tasks[1].outcome = "returned"

RecvBodies(ws) == [i \in 1..Len(transport[ws].recv) |-> transport[ws].recv[i].body]

IsPrefix(a, b) == Len(a) <= Len(b) /\ \A i \in 1..Len(a) : a[i] = b[i]

\* C9, as the specification states it: after a connect for (org, user) that found N >= 1 queued
\* messages, the new connection has received exactly those N messages in
\* enqueue order and the queue of (org, user) is gone.
C9_AllReceived ==
    \A t \in Slots :
        (tasks[t].pc = "done" /\ tasks[t].kind = "connect" /\ Len(tasks[t].q0) >= 1)
            => /\ tasks[t].outcome = "returned"
               /\ RecvBodies(tasks[t].ws) = tasks[t].q0
               /\ QueueKey(tasks[t].org, tasks[t].user) \notin DOMAIN message_queue

\* C9: after a connect for (org, user) that found N >= 1 queued messages the
\* queue of (org, user) is gone and the new connection has received, in
\* enqueue order, the queued messages sent before its peer went away: all N
\* of them when no send failed.
C9_FlushOnConnect ==
    \A t \in Slots :
        (tasks[t].pc = "done" /\ tasks[t].kind = "connect" /\ Len(tasks[t].q0) >= 1)
            => /\ tasks[t].outcome = "returned"
               /\ QueueKey(tasks[t].org, tasks[t].user) \notin DOMAIN message_queue
               /\ IsPrefix(RecvBodies(tasks[t].ws), tasks[t].q0)
               /\ transport[tasks[t].ws].state = "open"
                      => RecvBodies(tasks[t].ws) = tasks[t].q0

\* a connect has flushed two different queued messages to its open connection
C9_Witness ==
    /\ tasks[1].pc = "done" /\ tasks[1].kind = "connect"
    /\ Len(tasks[1].q0) = 2 /\ tasks[1].q0[1] # tasks[1].q0[2]
    /\ transport[tasks[1].ws].state = "open"
    /\ RecvBodies(tasks[1].ws) = tasks[1].q0

\* C10: no queue ever holds more than 1000 messages; a queue_message call
\* appends its message when the queue is shorter than 1000 and leaves the
\* queue as it is, without an error, when the queue holds 1000.
C10_QueueCapped ==
    /\ [](\A k \in DOMAIN message_queue : Len(message_queue[k]) <= 1000)
    /\ [][last'.op = "queue" =>
             LET k == QueueKey(last'.org, last'.user)
                 before == IF last'.was THEN message_queue[k] ELSE <<>>
             IN IF Len(before) < 1000
                THEN /\ Len(message_queue'[k]) = Len(before) + 1
                     /\ SubSeq(message_queue'[k], 1, Len(before)) = before
                ELSE message_queue'[k] = before]_vars

\* queue_message was called on a queue that held 1000 messages
C10_Witness ==
    /\ last.op = "queue" /\ queued > 1000
    /\ Len(message_queue[QueueKey(last.org, last.user)]) = 1000

Processed(buf) == {i \in 1..Len(buf) : buf[i].is_processed}

RECURSIVE SumCounts(_)
SumCounts(jobs) ==
    IF jobs = <<>> THEN 0 ELSE jobs[1].feedback_count + SumCounts(Tail(jobs))

\* C4: in every state that add_feedback and trigger_retraining reach, with
\* no trigger_retraining half-way through, an item is processed exactly when
\* one job counted it, no item is counted by two jobs, and the jobs'
\* feedback_counts add up to the number of processed items.
C4_CountedOnce ==
    trig.pc = "idle"
        => /\ \A i \in 1..Len(buffer) :
                  buffer[i].counted = IF buffer[i].is_processed THEN 1 ELSE 0
           /\ SumCounts(retraining_jobs) = Cardinality(Processed(buffer))

\* the ids of the unprocessed items of buf, in buffer order
UnprocessedIds(buf) ==
    LET open == SelectSeq(buf, LAMBDA it : ~it.is_processed)
    IN [k \in 1..Len(open) |-> open[k].threat_log_id]

\* C5: a trigger_retraining that finds exactly threshold-many unprocessed
\* items returns true and adds one job holding the ids of all of them; a
\* trigger_retraining that follows it directly returns false and adds no job.
C5_TwoTriggers ==
    [][last'.op = "trigger" =>
          /\ Cardinality(Unprocessed(buffer)) = retraining_threshold
                 => /\ last'.res
                    /\ Len(retraining_jobs') = Len(retraining_jobs) + 1
                    /\ SubSeq(retraining_jobs', 1, Len(retraining_jobs))
                           = retraining_jobs
                    /\ retraining_jobs'[Len(retraining_jobs')].feedback_ids
                           = UnprocessedIds(buffer)
                    /\ retraining_jobs'[Len(retraining_jobs')].feedback_count
                           = retraining_threshold
          /\ last'.twice
                 => ~last'.res /\ retraining_jobs' = retraining_jobs]_vars

\* the second of two consecutive triggers has returned false; the first had
\* found exactly threshold-many unprocessed items, two of them
C5_Witness ==
    /\ last.op = "trigger" /\ last.twice /\ ~last.res
    /\ retraining_threshold = 2
    /\ Len(retraining_jobs) = 1
    /\ Len(retraining_jobs[1].feedback_ids) = 2

\* C6: should_retrain() is true exactly when the number of items with
\* is_processed = false is at least the threshold.
C6_ShouldRetrain ==
    should_retrain(buffer, retraining_threshold)
        <=> Cardinality(Unprocessed(buffer)) >= retraining_threshold

\* exactly threshold-many items are unprocessed, beside processed ones
C6_Witness ==
    /\ Cardinality(Unprocessed(buffer)) = retraining_threshold
    /\ Processed(buffer) # {}

\* C7: a trigger_retraining that finds fewer unprocessed items than the
\* threshold returns false, adds no job and leaves every item as it was.
C7_NoOpBelowThreshold ==
    [][(last'.op = "trigger"
          /\ Cardinality(Unprocessed(buffer)) < retraining_threshold)
          => /\ ~last'.res
             /\ UNCHANGED <<buffer, retraining_jobs>>]_vars

\* a trigger has returned false on a buffer that holds processed and
\* unprocessed items
C7_Witness ==
    /\ last.op = "trigger" /\ ~last.res
    /\ Processed(buffer) # {} /\ Unprocessed(buffer) # {}

\* C11: an add_feedback whose corrected_classification is not threat, anomaly
\* or normal, a missing one included, returns false and leaves every item of
\* the buffer, and the number of items, as they were.
C11_InvalidRejected ==
    [][(last'.op = "add" /\ last'.arg \notin {"threat", "anomaly", "normal"})
          => ~last'.res /\ buffer' = buffer]_vars

\* an add_feedback without a classification was refused on a buffer that
\* holds processed and unprocessed items
C11_Witness ==
    /\ last.op = "add" /\ last.arg = None /\ ~last.res
    /\ Processed(buffer) # {} /\ Unprocessed(buffer) # {}

\* the connection of the transport tr is stored in ac in the pool of its
\* (org, user)
InPoolOf(ac, tr) ==
    /\ tr.org \in DOMAIN ac
    /\ DictHas(ac[tr.org], tr.user)
    /\ DictHas(DictGet(ac[tr.org], tr.user), tr.cid)

InPool(ws) == InPoolOf(active_connections, transport[ws])

\* transport ws has received the message of type type of the event e
HasEvent(ws, type, e) ==
    \E i \in 1..Len(transport[ws].recv) :
        transport[ws].recv[i].type = type /\ transport[ws].recv[i].body = e

\* the transports that received the message of type type of a finished call
Reached(task, type) ==
    {ws \in Sockets : transport[ws].org = task.org /\ HasEvent(ws, type, task.ev)}

\* C12: broadcast_threat disconnects nothing while it still sends; when it has
\* returned, every connection the organization had at the call either got
\* the event and is still registered or failed and is gone from the registry,
\* and each failed connection was disconnected once, by this call.
C12_BroadcastThenReap ==
    /\ [](\A t \in Slots :
            (tasks[t].pc = "done" /\ tasks[t].kind = "threat"
             /\ tasks[t].outcome = "returned")
                => LET failed == tasks[t].failed
                   IN /\ \A i \in 1..Len(failed) :
                             /\ failed[i] \notin DOMAIN connection_metadata
                             /\ \A j \in 1..Len(failed) : failed[j] = failed[i] => j = i
                             /\ \A ws \in Sockets :
                                    transport[ws].cid = failed[i]
                                        => /\ ~InPool(ws)
                                           /\ ~HasEvent(ws, "threat_detected", tasks[t].ev)
                      /\ last.op = "reap" => last.n = Len(failed)
                      /\ \A ws \in Reached(tasks[t], "threat_detected") :
                             Registered(ws) /\ InPool(ws)
                      /\ tasks[t].n0 = Len(failed)
                             + Cardinality(Reached(tasks[t], "threat_detected")))
    /\ [][\A t \in Slots :
             (tasks'[t].kind = "threat" /\ tasks'[t].pc = "threat")
                 => UNCHANGED <<active_connections, connection_metadata>>]_vars

\* a threat broadcast has returned: the send to the first connection of a
\* user failed, the send to a later one of the same user succeeded
C12_Witness ==
    /\ tasks[1].pc = "done" /\ tasks[1].kind = "threat"
    /\ tasks[1].outcome = "returned" /\ Len(tasks[1].failed) = 1
    /\ \E a \in Sockets, b \in Sockets :
           /\ a < b /\ transport[a].user = transport[b].user
           /\ transport[a].cid = tasks[1].failed[1]
           /\ b \in Reached(tasks[1], "threat_detected")

BroadcastKinds == {"threat", "audit", "revoke"}

\* the message type a broadcast of the given kind sends
TypeOf(kind) ==
    IF kind = "threat" THEN "threat_detected"
    ELSE IF kind = "audit" THEN "audit_log" ELSE "session_revoked"

\* C13: whichever sends and closes fail, a broadcast of a threat, of an audit
\* event or of a session revocation returns to its caller without raising,
\* after one send attempt to each connection it found for the event, and
\* every one of them whose transport took the message has received it.
C13_BroadcastsReturn ==
    \A t \in Slots :
        (tasks[t].pc = "done" /\ tasks[t].kind \in BroadcastKinds)
            => LET tried == tasks[t].tried
               IN /\ tasks[t].outcome = "returned"
                  /\ Len(tried) = tasks[t].n0
                  /\ \A i \in 1..Len(tried) :
                         /\ \A j \in 1..Len(tried) : tried[j] = tried[i] => j = i
                         /\ transport[tried[i]].org = tasks[t].org
                         /\ transport[tried[i]].state # "broken"
                                => HasEvent(tried[i], TypeOf(tasks[t].kind), tasks[t].ev)

\* an audit broadcast has returned after a failed send to one connection and
\* a delivery to a later one
C13_Witness ==
    /\ tasks[1].pc = "done" /\ tasks[1].kind = "audit"
    /\ tasks[1].outcome = "returned" /\ Len(tasks[1].tried) = 2
    /\ transport[tasks[1].tried[1]].state = "broken"
    /\ HasEvent(tasks[1].tried[2], "audit_log", tasks[1].ev)

\* C14: for every connection of the revoked user, broadcast_session_revocation
\* sends the payload, then calls close on the transport, then disconnects the
\* connection; the close and the disconnect happen also when the send failed.
C14_SendCloseDisconnect ==
    \A t \in Slots :
        tasks[t].kind = "revoke"
            => /\ \A i \in 1..Len(tasks[t].closed) :
                      InList(tasks[t].closed[i], tasks[t].tried)
               /\ \A i \in 1..Len(tasks[t].tried) :
                      LET ws == tasks[t].tried[i]
                      IN /\ ~Registered(ws) => InList(ws, tasks[t].closed)
                         /\ tasks[t].pc = "done"
                                => ~Registered(ws) /\ InList(ws, tasks[t].closed)

\* C15: a step of broadcast_session_revocation(org, user) leaves every
\* transport of another user or another organization as it was (nothing
\* received, not closed), leaves its connection registered if it was, and
\* leaves the message queues unchanged.
C15_RevocationFrame ==
    [][\A t \in Slots :
          (tasks'[t] # tasks[t] /\ tasks'[t].kind = "revoke")
              => /\ message_queue' = message_queue
                 /\ Len(transport') = Len(transport)
                 /\ \A ws \in Sockets :
                        (transport[ws].org # tasks'[t].org
                         \/ transport[ws].user # tasks'[t].user)
                            => /\ transport'[ws] = transport[ws]
                               /\ InPoolOf(active_connections', transport[ws])
                                      = InPoolOf(active_connections, transport[ws])
                               /\ Registered(ws)
                                      => /\ transport[ws].cid
                                                \in DOMAIN connection_metadata'
                                         /\ connection_metadata'[transport[ws].cid]
                                                = connection_metadata[transport[ws].cid]]_vars

\* a revocation of a user has returned while another user of the same
\* organization holds an open, registered connection that received nothing
C15_Witness ==
    /\ tasks[1].pc = "done" /\ tasks[1].kind = "revoke" /\ tasks[1].n0 >= 1
    /\ \E ws \in Sockets :
           /\ transport[ws].org = tasks[1].org /\ transport[ws].user # tasks[1].user
           /\ Registered(ws) /\ InPool(ws)
           /\ transport[ws].state = "open" /\ transport[ws].recv = <<>>

\* C16: when the send of a heartbeat payload fails, the heartbeat loop
\* disconnects the connection and ends: once the loop has taken the failure,
\* the connection is gone from the registry and the loop has ended.
C16_HeartbeatFailureDisconnects ==
    \A cid \in HbIds :
        (~heartbeat_tasks[cid].ok /\ heartbeat_tasks[cid].pc # "send")
            => /\ cid \notin DOMAIN connection_metadata
               /\ heartbeat_tasks[cid].pc = "ended"

\* C17: once a connection is disconnected, its heartbeat loop ends, at the
\* latest when it next wakes from its sleep; and a heartbeat payload is only
\* ever sent to the transport of a connection that is registered at the
\* moment of the send, so none is delivered after the disconnect.
C17_HeartbeatEnds ==
    /\ \A cid \in HbIds :
           (heartbeat_tasks[cid].n >= 1 /\ cid \notin DOMAIN connection_metadata)
               ~> heartbeat_tasks[cid].pc = "ended"
    /\ [][\A cid \in HbIds :
             (heartbeat_tasks[cid].pc = "sleep" /\ heartbeat_tasks'[cid].pc # "sleep"
              /\ cid \notin DOMAIN connection_metadata)
                 => heartbeat_tasks'[cid].pc = "ended"]_vars
    /\ [][\A ws \in Sockets :
             (Len(transport'[ws].recv) > Len(transport[ws].recv)
              /\ transport'[ws].recv[Len(transport'[ws].recv)].type = "heartbeat")
                 => transport[ws].cid \in DOMAIN connection_metadata]_vars

\* the heartbeat loop of a connection has delivered a payload, the connection
\* was disconnected with its peer still there, and the loop has ended
C17_Witness ==
    \E ws \in Sockets :
        /\ transport[ws].cid \notin DOMAIN connection_metadata
        /\ transport[ws].state = "open"
        /\ heartbeat_tasks[transport[ws].cid].pc = "ended"
        /\ heartbeat_tasks[transport[ws].cid].beats = 1
        /\ Len(transport[ws].recv) = 1

\* C18: mark_as_processed(ids) returns the number of items it changed from
\* unprocessed to processed; an item that was processed already stays as it
\* was and is not counted, and an id that matches no item changes nothing.
C18_MarkCountsChanges ==
    [][last'.op = "mark" =>
          /\ Len(buffer') = Len(buffer)
          /\ last'.n = Cardinality({i \in 1..Len(buffer) :
                                       ~buffer[i].is_processed
                                       /\ buffer'[i].is_processed})
          /\ \A i \in 1..Len(buffer) :
                 buffer[i].is_processed => buffer'[i] = buffer[i]]_vars


\* the statistics just returned count every item of the buffer once
StatsCounts ==
    /\ report.total_feedback = Len(buffer)
    /\ report.processed = Cardinality(Processed(buffer))
    /\ report.unprocessed = Cardinality(Unprocessed(buffer))
    /\ report.total_feedback = report.processed + report.unprocessed

\* C19: in every buffer state, the empty buffer included, the statistics
\* report total, processed and unprocessed counts with total = processed +
\* unprocessed, and feedback_until_retrain = max(0, threshold - unprocessed).
C19_StatisticsComplete ==
    last.op = "stats" =>
        /\ StatsCounts
        /\ "feedback_until_retrain" \in DOMAIN report
        /\ report.feedback_until_retrain
               = (IF retraining_threshold > Cardinality(Unprocessed(buffer))
                  THEN retraining_threshold - Cardinality(Unprocessed(buffer))
                  ELSE 0)

\* the items of the buffer whose correction differs from the original
Differing ==
    {i \in 1..Len(buffer) :
        buffer[i].corrected_classification # buffer[i].original_classification}

\* C20: the correction_rate reported is the number of items, processed or
\* not, whose correction differs from the original, divided by the number of
\* items and rounded to four decimal places; 3 of 4 give 0.75 and an empty
\* buffer gives 0.0.
C20_CorrectionRateRounded ==
    last.op = "stats" =>
        IF buffer = <<>> THEN report.correction_rate = 0
        ELSE LET d == report.correction_rate * Len(buffer)
                          - 10000 * Cardinality(Differing)
             IN /\ 2 * d <= Len(buffer)
                /\ 2 * d >= 0 - Len(buffer)
                /\ (Len(buffer) = 4 /\ Cardinality(Differing) = 3
                       => report.correction_rate = 7500)

\* statistics of four items, three of them corrected and one of these processed
C20_Witness ==
    /\ last.op = "stats"
    /\ Len(buffer) = 4
    /\ Cardinality(Differing) = 3
    /\ Differing \cap Processed(buffer) # {}
    /\ Differing \ Processed(buffer) # {}
    /\ report.correction_rate = 7500

\* C20 as stated: the correction_rate is exactly the quotient
C20_CorrectionRateExact ==
    last.op = "stats" =>
        report.correction_rate * Len(buffer) = 10000 * Cardinality(Differing)


\* the count the distribution returned last gives for a classification
DistCount(c) == IF c \in DOMAIN report THEN report[c] ELSE 0

\* C21: the distribution counts corrected_classification among unprocessed
\* items only: for each classification it gives the number of unprocessed
\* items with that value, processed items contribute nothing, and the counts
\* sum to the number of unprocessed items.
C21_DistributionOfUnprocessed ==
    last.op = "dist" =>
        /\ DOMAIN report \subseteq classification_mapping
        /\ \A c \in classification_mapping :
               DistCount(c)
                  = Cardinality({i \in Unprocessed(buffer) :
                                    buffer[i].corrected_classification = c})
        /\ DistCount("threat") + DistCount("anomaly") + DistCount("normal")
               = Cardinality(Unprocessed(buffer))

\* a distribution of a buffer whose processed items are threats and whose
\* unprocessed items are not
C21_Witness ==
    /\ last.op = "dist"
    /\ \E i \in Processed(buffer) : buffer[i].corrected_classification = "threat"
    /\ Unprocessed(buffer) # {}
    /\ DistCount("threat") = 0
    /\ DistCount("normal") = Cardinality(Unprocessed(buffer))


\* the step on which the broadcast_session_revocation of slot 1 returns
RevokeReturns ==
    /\ tasks[1].pc # "done"
    /\ tasks'[1].pc = "done"
    /\ tasks'[1].kind = "revoke"

\* C22: no live connection of (org, user) survives a revocation for (org,
\* user), also when a connect for the same (org, user) completes while the
\* call is suspended: when the call returns the user's connection count is 0.
C22_NoneSurvivesConnect ==
    [][RevokeReturns =>
          UserCount(active_connections', tasks'[1].org, tasks'[1].user) = 0]_vars


\* the connection ids that were registered once and have been removed
Removed == used_ids \ DOMAIN connection_metadata

\* C23: a connection_id that has been removed from the registry never
\* appears in it again: after disconnect(c) no connect registers a
\* connection under c.
C23_RemovedIdStaysOut ==
    [][\A c \in Removed :
          /\ c \notin DOMAIN connection_metadata'
          /\ \A org \in Orgs, user \in Users :
                 c \notin RegisteredIds(connection_metadata', org, user)]_vars


\* the step on which the connect of slot t ends, by a return or an exception
ConnectEnds(t) ==
    /\ tasks[t].pc # "done"
    /\ tasks'[t].pc = "done"
    /\ tasks'[t].kind = "connect"

\* C24: connect fails only when the handshake fails: after a handshake that
\* succeeded it returns true with the connection registered under its
\* organization and user and a heartbeat loop started, and after one that
\* failed the registry, the metadata and the queues are unchanged and no
\* heartbeat loop is started.
C24_ConnectFailsOnlyOnHandshake ==
    [][\A t \in Slots :
          ConnectEnds(t) =>
              IF tasks'[t].ws # 0
              THEN /\ tasks'[t].outcome = "returned"
                   /\ tasks'[t].cid
                          \in RegisteredIds(connection_metadata', tasks'[t].org,
                                            tasks'[t].user)
                   /\ InPoolOf(active_connections', transport'[tasks'[t].ws])
                   /\ heartbeat_tasks'[tasks'[t].cid].n = 1
              ELSE /\ tasks'[t].outcome = "raised"
                   /\ UNCHANGED <<active_connections, connection_metadata,
                                  message_queue, heartbeat_tasks>>]_vars


\* the step on which slot t is given a broadcast for an organization that has
\* no connection
CallsEmptyOrg(t) ==
    /\ tasks[t].pc = "idle"
    /\ tasks'[t].kind \in BroadcastKinds
    /\ OrgCount(active_connections, tasks'[t].org) = 0

C26_ReportsClosed ==
    last.op = "report" => last.n = tasks[1].n0


\* the message types of the wire format
WireTypes == {"threat_detected", "session_revoked", "audit_log", "heartbeat"}

\* C27: every message the manager sends to a client for a threat, a session
\* revocation, an audit event or a heartbeat has one of the four types and
\* carries a data field and a top-level timestamp field.
C27_WireShape ==
    \A ws \in Sockets : \A i \in 1..Len(transport[ws].recv) :
        LET msg == transport[ws].recv[i]
        IN msg.type # "queued" =>
               /\ msg.type \in WireTypes
               /\ "type" \in msg.keys
               /\ "data" \in msg.keys
               /\ "timestamp" \in msg.keys


\* C28: a job's status moves along pending -> running -> {completed,
\* failed} only: trigger_retraining creates every job in status pending, and
\* a running, completed or failed status reported to the orchestrator is
\* recorded, the same report twice leaving the job as after the first.
C28_StatusRecorded ==
    /\ \A j \in 1..Len(retraining_jobs) :
           retraining_jobs[j].status \in {"pending"} \cup Reported
    /\ (last.op = "trigger" /\ last.res) =>
           retraining_jobs[Len(retraining_jobs)].status = "pending"
    /\ last.op = "status" => retraining_jobs[last.n].status = last.arg


\* C29: no operation of the buffer or of the orchestrator removes a feedback
\* item, and an item is made processed once: a processed item stays
\* processed, and later mark_as_processed or trigger_retraining calls leave
\* its is_processed and its processed_at as they are.
C29_ProcessedOnce ==
    [][/\ Len(buffer') >= Len(buffer)
       /\ \A i \in 1..Len(buffer) :
              /\ buffer'[i].threat_log_id = buffer[i].threat_log_id
              /\ buffer[i].is_processed =>
                     /\ buffer'[i].is_processed
                     /\ buffer'[i].processed_at = buffer[i].processed_at]_vars


\* the item add_feedback stored last
Newest == buffer[Len(buffer)]

\* C30: add_feedback never fails because a numeric confidence_score is out
\* of range: a score below 0 is stored as 0 and one above 1 as 1, so every
\* score in the buffer lies within [0, 1], and every item is stored with
\* is_processed false.
C30_ScoreClamped ==
    /\ \A i \in 1..Len(buffer) :
           buffer[i].has_confidence =>
               (0 <= buffer[i].confidence_score /\ buffer[i].confidence_score <= ONE)
    /\ (last.op = "add" /\ last.arg \in classification_mapping) =>
           /\ last.res
           /\ ~Newest.is_processed
           /\ Newest.has_confidence = last.was
           /\ last.was =>
                  Newest.confidence_score
                     = (IF last.n < 0 THEN 0 ELSE IF last.n > ONE THEN ONE ELSE last.n)

\* a score below 0 was stored as 0 beside an earlier one above 1 stored as 1
C30_Witness ==
    /\ last.op = "add" /\ last.res /\ last.was /\ last.n < 0
    /\ Newest.confidence_score = 0
    /\ ~Newest.is_processed
    /\ \E i \in 1..Len(buffer) :
           buffer[i].has_confidence /\ buffer[i].confidence_score = ONE
                                   /\ buffer[i].is_processed


\* C31: queued messages never cross tenant boundaries: a message queued for
\* (orgA, userA) is flushed only to connections registered under exactly
\* (orgA, userA), also when identifiers contain the ':' of the queue key; a
\* connect of any other (orgB, userB) never delivers it.
C31_QueueStaysWithTenant ==
    \A ws \in Sockets : \A i \in 1..Len(transport[ws].recv) :
        transport[ws].recv[i].type = "queued" =>
            /\ transport[ws].org = QueuedFor[1]
            /\ transport[ws].user = QueuedFor[2]


\* the last n message bodies transport ws received
LastBodies(ws, n) ==
    LET b == RecvBodies(ws)
    IN IF Len(b) < n THEN <<>> ELSE SubSeq(b, Len(b) - n + 1, Len(b))

\* the transports registered for the user of task at the moment
SiblingsOf(task) ==
    {ws \in Sockets : /\ Registered(ws) /\ InPool(ws)
                      /\ transport[ws].org = task.org
                      /\ transport[ws].user = task.user}

\* C32: the flush of a connect delivers every queued message, in the order
\* of the queue, to every connection registered for the user; a send that
\* fails on one connection neither aborts the flush nor keeps the remaining
\* messages from the other connections, and the queue is deleted afterwards.
C32_FlushBestEffort ==
    \A t \in Slots :
        (tasks[t].pc = "done" /\ tasks[t].kind = "connect" /\ Len(tasks[t].q0) >= 1)
            => /\ tasks[t].outcome = "returned"
               /\ QueueKey(tasks[t].org, tasks[t].user) \notin DOMAIN message_queue
               /\ \A ws \in SiblingsOf(tasks[t]) :
                      transport[ws].state = "open"
                          => LastBodies(ws, Len(tasks[t].q0)) = tasks[t].q0

\* a flush of two different messages to two connections of the user: the
\* peer of the first connection was gone, the second received both in order
C32_Witness ==
    \E a \in Sockets, b \in Sockets :
        /\ tasks[1].pc = "done" /\ tasks[1].kind = "connect"
        /\ Len(tasks[1].q0) = 2 /\ tasks[1].q0[1] # tasks[1].q0[2]
        /\ a < b /\ {a, b} \subseteq SiblingsOf(tasks[1])
        /\ transport[a].state = "broken" /\ RecvBodies(a) = <<>>
        /\ transport[b].state = "open" /\ RecvBodies(b) = tasks[1].q0


\* C33: broadcast_audit sends the audit event to every connection of every
\* user of the event's organization, and a connection whose send failed is
\* disconnected: when the broadcast has returned no such connection is left
\* in the registry.
C33_AuditReapsFailed ==
    \A t \in Slots :
        (tasks[t].pc = "done" /\ tasks[t].kind = "audit")
            => /\ tasks[t].outcome = "returned"
               /\ Len(tasks[t].tried) = tasks[t].n0
               /\ \A i \in 1..Len(tasks[t].tried) :
                      ~HasEvent(tasks[t].tried[i], "audit_log", tasks[t].ev)
                          => /\ ~Registered(tasks[t].tried[i])
                             /\ ~InPool(tasks[t].tried[i])


\* the event e is in the queue of (org, user)
QueuedEvent(org, user, e) ==
    /\ QueueKey(org, user) \in DOMAIN message_queue
    /\ \E i \in 1..Len(message_queue[QueueKey(org, user)]) :
           message_queue[QueueKey(org, user)][i] = e

\* C34: every threat event given to broadcast_threat is, for each user the
\* registry knows under the event's organization, either delivered to a
\* connection of that user or appended to that user's queue, from which the
\* user receives it at the next connect.
C34_DeliveredOrQueued ==
    \A t \in Slots :
        (tasks[t].pc = "done" /\ tasks[t].kind = "threat"
             /\ tasks[t].org \in DOMAIN active_connections)
            => \A user \in Users :
                   DictHas(OrgPool(tasks[t].org), user)
                       => \/ \E ws \in Sockets :
                                /\ transport[ws].org = tasks[t].org
                                /\ transport[ws].user = user
                                /\ HasEvent(ws, "threat_detected", tasks[t].ev)
                          \/ QueuedEvent(tasks[t].org, user, tasks[t].ev)


\* a finished broadcast_threat or broadcast_audit, or a finished connect
\* that had a queue to flush
SuspendedInSend(task) ==
    /\ task.pc = "done"
    /\ \/ task.kind \in {"threat", "audit"}
       \/ task.kind = "connect" /\ Len(task.q0) >= 1

\* C35: when a connect or a disconnect for the same organization runs while
\* broadcast_threat, broadcast_audit or a flush is suspended in a send, the
\* call in progress works on the connections it found before sending: it
\* ends without raising to its caller and has tried every connection that
\* was registered when it started and still is.
C35_WorksOnResolvedSet ==
    \A t \in Slots :
        SuspendedInSend(tasks[t]) =>
            /\ tasks[t].outcome = "returned"
            /\ \A i \in 1..Len(tasks[t].at0) :
                   LET ws == tasks[t].at0[i]
                   IN (Registered(ws) /\ InPool(ws)) =>
                          IF tasks[t].kind = "connect"
                          THEN transport[ws].state = "open" =>
                                   RecvBodies(ws) # <<>>
                          ELSE InList(ws, tasks[t].tried)

\* the connection ids stored in the pool of (org, user)
StoredIds(ac, org, user) ==
    IF org \in DOMAIN ac /\ DictHas(ac[org], user)
    THEN LET pool == DictItems(DictGet(ac[org], user))
         IN {pool[i].k : i \in 1..Len(pool)}
    ELSE {}

\* C36: the metadata map and the nested connection map agree: a
\* connection_id is stored under (org, user) exactly when its metadata
\* records (org, user), and get_connection_count(org) is the number of
\* metadata entries of org, also after a connect with a connection_id that
\* is registered under another user or organization.
C36_MapsAgree ==
    /\ \A org \in Orgs, user \in Users :
           StoredIds(active_connections, org, user)
               = RegisteredIds(connection_metadata, org, user)
    /\ \A org \in Orgs :
           get_connection_count(org)
               = Cardinality({c \in DOMAIN connection_metadata :
                                 connection_metadata[c].organization_id = org})

\* no flush is suspended in a send
NoFlushSuspended == \A t \in Slots : tasks[t].pc # "flush"

\* the messages queue_message has accepted so far
Accepted == {QueueSeq[i] : i \in 1..queued}

\* a flush has sent m to some connection
Flushed(m) ==
    \E ws \in Sockets : \E i \in 1..Len(transport[ws].recv) :
        transport[ws].recv[i].type = "queued" /\ transport[ws].recv[i].body = m

\* every accepted message was sent by a flush or waits in the queue
AcceptedKept ==
    NoFlushSuspended
        => \A m \in Accepted : Flushed(m) \/ QueuedEvent("orgA", "u1", m)

\* C37: a message accepted by queue_message is never discarded without a
\* delivery attempt, also when queue_message or a second connect for the
\* key runs while a flush for the key is suspended in a send: the message
\* is sent by a flush or remains queued, and no flush raises an error.
C37_NoMessageDiscarded ==
    /\ AcceptedKept
    /\ \A t \in Slots :
           (tasks[t].pc = "done" /\ tasks[t].kind = "connect")
               => tasks[t].outcome = "returned"

\* the ids trigger_retraining took or is about to take as its snapshot
SnapshotIds == IF trig.pc = "snapshot" THEN trig.ids ELSE UnprocessedIds(buffer)

\* C38: when trigger_retraining returns true, the job it created has status
\* pending, its feedback_ids are the ids of the items that were unprocessed
\* when the call took them, its feedback_count is the length of feedback_ids
\* and at least the threshold, and right after the call no item of the
\* buffer is unprocessed.
C38_TriggerTakesAll ==
    [][(last'.op = "trigger" /\ last'.res) =>
          LET job == retraining_jobs'[Len(retraining_jobs')]
          IN /\ job.status = "pending"
             /\ job.feedback_ids = SnapshotIds
             /\ job.feedback_count = Len(job.feedback_ids)
             /\ job.feedback_count >= retraining_threshold
             /\ Unprocessed(buffer') = {}]_vars

\* a second trigger_retraining has returned true: its job took two items
\* beside the items the first job had left processed
C38_Witness ==
    /\ last.op = "trigger" /\ last.res
    /\ Len(retraining_jobs) = 2
    /\ retraining_jobs[2].feedback_count = 2
    /\ Cardinality(Processed(buffer)) > 2

\* what get_retraining_status() would return now
StatusNow == get_retraining_status(retraining_jobs)

\* C39: get_retraining_status() reports a total_jobs that is the number of
\* trigger_retraining calls that returned true (none at the start, one more
\* with every call that returns true, the same after anything else), and
\* its pending, running, completed and failed counts add up to total_jobs.
C39_StatusTotals ==
    /\ StatusNow.total_jobs = 0
    /\ [][StatusNow'.total_jobs =
             StatusNow.total_jobs
                 + (IF last'.op = "trigger" /\ last'.res THEN 1 ELSE 0)]_vars
    /\ [](StatusNow.pending + StatusNow.running + StatusNow.completed
              + StatusNow.failed = StatusNow.total_jobs)
    /\ [](last.op = "jobs" => report = StatusNow)

\* the status was read after two trigger_retraining calls had returned true
C39_Witness ==
    /\ last.op = "jobs"
    /\ report.total_jobs = 2
    /\ report.pending + report.running + report.completed + report.failed = 2

====
